---- MODULE Spec2Model ----
(***************************************************************************)
(* Model of the quality-check pipeline of src/main.ts: parseReportFile,    *)
(* the prompt substitution of main, processModelResponses and the two      *)
(* publishing steps of main.                                               *)
(*                                                                         *)
(* JavaScript strings are TLA+ strings; the String methods the code uses   *)
(* (includes, replace with a string pattern, split(p).join(''),            *)
(* split('/').pop(), trim) and JSON.parse / JSON.stringify are operators   *)
(* that compute what the library computes, on the subset of JSON texts     *)
(* described at JSONParse.                                                 *)
(***************************************************************************)
EXTENDS Integers, Sequences, FiniteSets, TLC

(***************************************************************************)
(* String.prototype helpers                                                *)
(***************************************************************************)

\* The grave accent. A TLA+ string cannot hold that character, so the model
\* writes it as a circumflex; no literal of the code holds a circumflex.
BT == "^"

\* the characters s[i..j] of s ('' when j < i)
Sub(s, i, j) == IF j < i THEN "" ELSE SubSeq(s, i, j)

\* s[i] as a one-character string
CharAt(s, i) == SubSeq(s, i, i)

\* 1-based position of the first occurrence of p in s at or after i; 0 if none
IndexFrom(s, p, i) ==
    LET n == Len(p)
        first == {k \in i..(Len(s) - n + 1) :
                    /\ Sub(s, k, k + n - 1) = p
                    /\ \A j \in i..(k - 1) : Sub(s, j, j + n - 1) # p}
    IN  IF first = {} THEN 0 ELSE CHOOSE k \in first : TRUE

\* s.indexOf(p) + 1
IndexOf(s, p) == IndexFrom(s, p, 1)

\* s.includes(p)
Includes(s, p) == IndexOf(s, p) # 0

RECURSIVE CountFrom(_, _, _)
CountFrom(s, p, i) ==
    LET k == IndexFrom(s, p, i)
    IN  IF k = 0 THEN 0 ELSE 1 + CountFrom(s, p, k + Len(p))

\* s.split(p).length - 1 : the number of non-overlapping occurrences of p
CountOcc(s, p) == CountFrom(s, p, 1)

RECURSIVE ExpandReplacement(_, _, _, _)
\* GetSubstitution of String.prototype.replace for a string pattern: in the
\* replacement text $$ is a dollar, $& the match, $ followed by a grave
\* accent the text before the match and $' the text after it; there are no
\* capture groups.
ExpandReplacement(r, before, matched, after) ==
    LET k == IndexFrom(r, "$", 1)
    IN  IF k = 0 \/ k = Len(r) THEN r
        ELSE LET c == CharAt(r, k + 1)
                 rest == Sub(r, k + 2, Len(r))
                 head == Sub(r, 1, k - 1)
             IN  IF c = "$" THEN head \o "$" \o ExpandReplacement(rest, before, matched, after)
                 ELSE IF c = "&" THEN head \o matched \o ExpandReplacement(rest, before, matched, after)
                 ELSE IF c = BT THEN head \o before \o ExpandReplacement(rest, before, matched, after)
                 ELSE IF c = "'" THEN head \o after \o ExpandReplacement(rest, before, matched, after)
                 ELSE head \o "$" \o ExpandReplacement(Sub(r, k + 1, Len(r)), before, matched, after)

\* s.replace(p, r) for a string pattern p: the first occurrence only
ReplaceFirst(s, p, r) ==
    LET k == IndexOf(s, p)
    IN  IF k = 0 THEN s
        ELSE LET before == Sub(s, 1, k - 1)
                 after == Sub(s, k + Len(p), Len(s))
             IN  before \o ExpandReplacement(r, before, p, after) \o after

RECURSIVE RemoveAll(_, _)
\* s.split(p).join('') for a non-empty p
RemoveAll(s, p) ==
    LET k == IndexOf(s, p)
    IN  IF k = 0 THEN s
        ELSE Sub(s, 1, k - 1) \o RemoveAll(Sub(s, k + Len(p), Len(s)), p)

RECURSIVE ReplaceAll(_, _, _)
\* s.split(p).join(r) for a non-empty p
ReplaceAll(s, p, r) ==
    LET k == IndexOf(s, p)
    IN  IF k = 0 THEN s
        ELSE Sub(s, 1, k - 1) \o r \o ReplaceAll(Sub(s, k + Len(p), Len(s)), p, r)

RECURSIVE LastSegment(_)
\* s.split('/').pop() : the text after the last '/'
LastSegment(s) ==
    LET k == IndexOf(s, "/")
    IN  IF k = 0 THEN s ELSE LastSegment(Sub(s, k + 1, Len(s)))

WhiteSpace == {" ", "\t", "\n", "\r"}

RECURSIVE TrimStart(_)
TrimStart(s) == IF s # "" /\ Head(s) \in WhiteSpace THEN TrimStart(Tail(s)) ELSE s

RECURSIVE TrimEnd(_)
TrimEnd(s) ==
    IF s # "" /\ CharAt(s, Len(s)) \in WhiteSpace THEN TrimEnd(Sub(s, 1, Len(s) - 1)) ELSE s

\* s.trim()
Trim(s) == TrimEnd(TrimStart(s))

\* s.split(',') for the strings of at most three entries the model draws
RECURSIVE SplitComma(_)
SplitComma(s) ==
    LET k == IndexOf(s, ",")
    IN  IF k = 0 THEN <<s>>
        ELSE <<Sub(s, 1, k - 1)>> \o SplitComma(Sub(s, k + 1, Len(s)))

(***************************************************************************)
(* JavaScript objects and JSON                                             *)
(*                                                                         *)
(* A JSON value is a record [t, s, e]: t is "str", "num", "lit" (null,     *)
(* true, false) or "obj"; s is the text of a scalar; e is the sequence of  *)
(* the own properties [k, v] of an object, in the order Object.keys and    *)
(* JSON.stringify enumerate them.                                          *)
(***************************************************************************)

Scalar(t, s) == [t |-> t, s |-> s, e |-> <<>>]
Obj(e) == [t |-> "obj", s |-> "", e |-> e]
Undefined == Scalar("undef", "undefined")

Digits == {"0", "1", "2", "3", "4", "5", "6", "7", "8", "9"}

DigitVal(c) ==
    CASE c = "0" -> 0 [] c = "1" -> 1 [] c = "2" -> 2 [] c = "3" -> 3 [] c = "4" -> 4
      [] c = "5" -> 5 [] c = "6" -> 6 [] c = "7" -> 7 [] c = "8" -> 8 [] c = "9" -> 9

AllDigits(s) == s # "" /\ \A i \in 1..Len(s) : CharAt(s, i) \in Digits

RECURSIVE NumVal(_)
NumVal(s) == IF s = "" THEN 0 ELSE 10 * NumVal(Sub(s, 1, Len(s) - 1)) + DigitVal(CharAt(s, Len(s)))

\* An integer-indexed property key: a canonical numeric string. Such keys are
\* enumerated first, in ascending numeric order, before the string keys.
IsArrayIndex(k) ==
    /\ AllDigits(k)
    /\ Len(k) <= 9
    /\ (Len(k) > 1 => Head(k) # "0")

HasKey(e, k) == \E i \in 1..Len(e) : e[i].k = k

\* the position a new property k takes in the property order e
InsertPos(e, k) ==
    IF IsArrayIndex(k)
    THEN 1 + Cardinality({i \in 1..Len(e) : IsArrayIndex(e[i].k) /\ NumVal(e[i].k) < NumVal(k)})
    ELSE Len(e) + 1

\* ObjSet that leaves a property that exists as it is
ObjSetKeepFirst(e, k, v) ==
    IF HasKey(e, k)
    THEN e
    ELSE LET n == InsertPos(e, k)
         IN  SubSeq(e, 1, n - 1) \o <<[k |-> k, v |-> v]>> \o SubSeq(e, n, Len(e))

\* o[k] = v on the property list e: an existing property keeps its place
ObjSet(e, k, v) ==
    IF HasKey(e, k)
    THEN [i \in 1..Len(e) |-> IF e[i].k = k THEN [k |-> k, v |-> v] ELSE e[i]]
    ELSE LET n == InsertPos(e, k)
         IN  SubSeq(e, 1, n - 1) \o <<[k |-> k, v |-> v]>> \o SubSeq(e, n, Len(e))

\* o[k]
ObjGet(e, k) ==
    IF HasKey(e, k) THEN e[CHOOSE i \in 1..Len(e) : e[i].k = k].v ELSE Undefined

\* Object.keys(o)
ObjectKeys(e) == [i \in 1..Len(e) |-> e[i].k]

\* v.k for the value a summary text parsed to: a property read on null
\* throws, on any other scalar it is undefined
PropertyReadThrows(v) == v.t = "lit" /\ v.s = "null"
Property(v, k) == IF v.t = "obj" THEN ObjGet(v.e, k) ELSE Undefined

\* `${v}` : String(v)
ToJSString(v) == IF v.t = "obj" THEN "[object Object]" ELSE v.s

(* JSON.parse on the JSON texts the model draws: white space, the literals,
   non-negative integers, strings without escape sequences, and objects
   whose members are such scalars. A parse step is [ok, pos, v]: pos is the
   position after the value. *)
JSONWhiteSpace == {" ", "\t", "\n", "\r"}

Fail == [ok |-> FALSE, pos |-> 0, v |-> Undefined]
Parsed(pos, v) == [ok |-> TRUE, pos |-> pos, v |-> v]

RECURSIVE SkipWs(_, _)
SkipWs(s, i) == IF i <= Len(s) /\ CharAt(s, i) \in JSONWhiteSpace THEN SkipWs(s, i + 1) ELSE i

RECURSIVE DigitsEnd(_, _)
\* the position after the run of digits that starts at i
DigitsEnd(s, i) == IF i <= Len(s) /\ CharAt(s, i) \in Digits THEN DigitsEnd(s, i + 1) ELSE i

StringChar(c) == c \notin {"\"", "\\", "\n", "\t", "\r"}

ParseString(s, i) ==
    LET j == IndexFrom(s, "\"", i + 1)
    IN  IF i > Len(s) \/ CharAt(s, i) # "\"" \/ j = 0 THEN Fail
        ELSE IF \A n \in (i + 1)..(j - 1) : StringChar(CharAt(s, n))
             THEN Parsed(j + 1, Scalar("str", Sub(s, i + 1, j - 1)))
             ELSE Fail

ParseLiteral(s, i, w) ==
    IF Sub(s, i, i + Len(w) - 1) = w /\ i + Len(w) - 1 <= Len(s)
    THEN Parsed(i + Len(w), Scalar("lit", w)) ELSE Fail

ParseNumber(s, i) ==
    LET j == DigitsEnd(s, i)
    IN  IF j = i THEN Fail
        ELSE IF CharAt(s, i) = "0" /\ j > i + 1 THEN Fail
        ELSE Parsed(j, Scalar("num", Sub(s, i, j - 1)))

ParseScalar(s, i) ==
    IF i > Len(s) THEN Fail
    ELSE LET c == CharAt(s, i)
         IN  IF c = "\"" THEN ParseString(s, i)
             ELSE IF c \in Digits THEN ParseNumber(s, i)
             ELSE IF c = "n" THEN ParseLiteral(s, i, "null")
             ELSE IF c = "t" THEN ParseLiteral(s, i, "true")
             ELSE IF c = "f" THEN ParseLiteral(s, i, "false")
             ELSE Fail

RECURSIVE ParseMembers(_, _, _)
\* the members of an object from position i (after '{' or ','), added to e
ParseMembers(s, i, e) ==
    LET key == ParseString(s, SkipWs(s, i))
    IN  IF ~key.ok THEN Fail
        ELSE LET c == SkipWs(s, key.pos)
             IN  IF c > Len(s) \/ CharAt(s, c) # ":" THEN Fail
                 ELSE LET val == ParseScalar(s, SkipWs(s, c + 1))
                      IN  IF ~val.ok THEN Fail
                          ELSE LET n == SkipWs(s, val.pos)
                                   e2 == ObjSet(e, key.v.s, val.v)
                               IN  IF n > Len(s) THEN Fail
                                   ELSE IF CharAt(s, n) = "}" THEN Parsed(n + 1, Obj(e2))
                                   ELSE IF CharAt(s, n) = "," THEN ParseMembers(s, n + 1, e2)
                                   ELSE Fail

ParseObject(s, i) ==
    LET n == SkipWs(s, i + 1)
    IN  IF n <= Len(s) /\ CharAt(s, n) = "}" THEN Parsed(n + 1, Obj(<<>>))
        ELSE ParseMembers(s, i + 1, <<>>)

\* JSON.parse(s): ok is FALSE where JSON.parse throws a SyntaxError
JSONParse(s) ==
    LET i == SkipWs(s, 1)
        r == IF i <= Len(s) /\ CharAt(s, i) = "{" THEN ParseObject(s, i) ELSE ParseScalar(s, i)
    IN  IF r.ok /\ SkipWs(s, r.pos) = Len(s) + 1 THEN r ELSE Fail

\* JSON.stringify of a scalar
StringifyScalar(v) == IF v.t = "str" THEN "\"" \o v.s \o "\"" ELSE v.s

RECURSIVE StringifyMembers(_, _)
StringifyMembers(e, i) ==
    IF i > Len(e) THEN ""
    ELSE "  \"" \o e[i].k \o "\": " \o StringifyScalar(e[i].v)
         \o (IF i < Len(e) THEN ",\n" ELSE "\n") \o StringifyMembers(e, i + 1)

\* JSON.stringify(o, null, 2) of an object of scalars
JSONStringify2(e) == IF e = <<>> THEN "{}" ELSE "{\n" \o StringifyMembers(e, 1) \o "}"

(***************************************************************************)
(* parseReportFile and the prompt substitution, as functions of what the   *)
(* collaborators returned                                                  *)
(***************************************************************************)

\* files.map(f => f.replace('src', 'dist').replace('.ts', ''))
NormalizeFile(f) == ReplaceFirst(ReplaceFirst(f, "src", "dist"), ".ts", "")

FilteredFiles(files) == [i \in 1..Len(files) |-> NormalizeFile(files[i])]

\* SomeIncludes with every in the place of some
EveryIncludes(filteredFiles, fileKey) ==
    \A i \in 1..Len(filteredFiles) : Includes(fileKey, filteredFiles[i])

\* filteredFiles.some(f => fileKey.includes(f))
SomeIncludes(filteredFiles, fileKey) ==
    \E i \in 1..Len(filteredFiles) : Includes(fileKey, filteredFiles[i])

\* FileName without the re-keying
FileNameWholeKey(fileKey) == fileKey

\* fileKey.split('/').pop() || fileKey
FileName(fileKey) == IF LastSegment(fileKey) # "" THEN LastSegment(fileKey) ELSE fileKey

\* the own enumerable properties of the parsed report: those of an object,
\* the indexed characters of a string, none for a number or a boolean
ReportProperties(v) ==
    IF v.t = "obj" THEN v.e
    ELSE IF v.t = "str"
    THEN [i \in 1..Len(v.s) |-> [k |-> ToString(i - 1), v |-> Scalar("str", CharAt(v.s, i))]]
    ELSE <<>>

RECURSIVE FilterLoop(_, _, _, _)
\* the for loop over Object.keys(reportFileJson), from the i-th key on
FilterLoop(filteredFiles, e, i, result) ==
    IF i > Len(e) THEN result
    ELSE FilterLoop(filteredFiles, e, i + 1,
                    IF SomeIncludes(filteredFiles, e[i].k)
                    THEN ObjSet(result, FileName(e[i].k), e[i].v)
                    ELSE result)

\* FilterReport with the report parsed before the changed files are looked at
FilterReportParseFirst(files, reportFileContent) ==
    LET filteredFiles == FilteredFiles(files)
        reportFileJson == JSONParse(reportFileContent)
    IN  IF ~reportFileJson.ok THEN ""
        ELSE IF Len(filteredFiles) = 0 THEN reportFileContent
        ELSE IF PropertyReadThrows(reportFileJson.v) THEN ""
        ELSE LET result == FilterLoop(filteredFiles, ReportProperties(reportFileJson.v), 1, <<>>)
             IN  IF Len(result) > 0 THEN JSONStringify2(result) ELSE reportFileContent

\* FilterReport without the fall back to the full report
FilterReportFailClosed(files, reportFileContent) ==
    LET filteredFiles == FilteredFiles(files)
        reportFileJson == JSONParse(reportFileContent)
    IN  IF Len(filteredFiles) = 0 THEN reportFileContent
        ELSE IF ~reportFileJson.ok THEN ""
        ELSE IF PropertyReadThrows(reportFileJson.v) THEN ""
        ELSE JSONStringify2(FilterLoop(filteredFiles, ReportProperties(reportFileJson.v), 1, <<>>))

\* What parseReportFile returns once both collaborators have answered: the
\* changed files `files` and the report text reportFileContent.
FilterReport(files, reportFileContent) ==
    LET filteredFiles == FilteredFiles(files)
        reportFileJson == JSONParse(reportFileContent)
    IN  IF Len(filteredFiles) = 0 THEN reportFileContent
        ELSE IF ~reportFileJson.ok THEN ""
        ELSE IF PropertyReadThrows(reportFileJson.v) THEN ""
        ELSE LET result == FilterLoop(filteredFiles, ReportProperties(reportFileJson.v), 1, <<>>)
             IN  IF Len(result) > 0 THEN JSONStringify2(result) ELSE reportFileContent

PLACEHOLDER == "##PLACEHOLDER##"
REPORT == "##REPORT##"

\* the four assignments to userPrompt
BuildPrompt(template, title, reportContent) ==
    LET p1 == ReplaceFirst(template, PLACEHOLDER, ReplaceFirst(title, "{", ""))
        p2 == ReplaceFirst(p1, REPORT, reportContent)
        p3 == RemoveAll(p2, "{")
    IN  RemoveAll(p3, "}")

(***************************************************************************)
(* Configuration and fixed texts                                           *)
(***************************************************************************)

GITHUB_OWNER == "test-owner"
GITHUB_REPO == "test-repo"
GITHUB_ISSUE_NUMBER == "42"
JIRA_PROJECT_KEY == "TEST"
JIRA_URL_OUTPUT == "https://test.atlassian.net"
JIRA_SPACE_KEY_OUTPUT == "TEST_SPACE"
USE_FOR == "unit-testing"
Cwd == "/work"
\* new Date().toLocaleString(undefined, { timeZone: 'Asia/Kolkata' })
DateString == "3/11/2026, 10:00:00 am"

getSummaryResponseString ==
    "[![Foo](https://sourcefuse.atlassian.net/s/vf1kch/b/9/7104e5158390e41d6b3edd0f16b03d29/_/jira-favicon-scaled.png)](https:/sourcefuse.atlassian.net/) \n"
    \o "## Quality Checker Overview"

getPRLink ==
    "<a href=\"https://github.com/" \o GITHUB_OWNER \o "/" \o GITHUB_REPO \o "/pull/"
    \o GITHUB_ISSUE_NUMBER \o "\" target=\"_blank\">Link</a>"

getConfluenceLink(createPageResponse) ==
    "<a target=\"_blank\" href=\"" \o JIRA_URL_OUTPUT \o "/wiki/spaces/"
    \o JIRA_SPACE_KEY_OUTPUT \o "/pages/"
    \o createPageResponse.pageId \o "/" \o createPageResponse.pageTitle \o "\">link</a>"

ResponseLabel(modelName) == "<b>ResponseModel:-</b> " \o modelName \o " <br /><br/>"
Separator == "<br /><br /><br />=================================<br />"
ModelLine(modelName) == "\n<b>Model:-</b> " \o modelName
SummaryLine(v) == "\n<b>Summary:-</b> " \o ToJSString(Property(v, "summary"))
ScoreLine(v) == "\n<b>Score:-</b> " \o ToJSString(Property(v, "score"))
DetailsPrefix == "<br /><b>Details:-</b> "
JsonFence == BT \o BT \o BT \o "json"
MarkdownFence == BT \o BT \o BT \o "markdown"
Fence == BT \o BT \o BT

\* the argument of ConfluenceCreatePageTool(...).func
PageBody(response) ==
    "<b>Date:-</b>" \o DateString \o "<br />"
    \o "<b>Repo:-</b>" \o GITHUB_REPO \o "<br />"
    \o "<b>PR:-</b>" \o getPRLink \o "<br />"
    \o "<b>For:-</b>" \o USE_FOR \o "<br />"
    \o response

\* response.split('```markdown').join('').split('```').join('').split('\n').join('<br />')
CleanResponse(response) ==
    ReplaceAll(RemoveAll(RemoveAll(response, MarkdownFence), Fence), "\n", "<br />")

\* sResponse.split('```json').join('').split('```').join('')
CleanSummary(sResponse) == RemoveAll(RemoveAll(sResponse, JsonFence), Fence)

(* Thrown values: [type, message]. type is "CustomError", "Error" or, for a
   value that is no Error, "Value" (message is then String(value)). *)
NoError == [type |-> "none", message |-> ""]
ConfigError ==
    [type |-> "CustomError",
     message |-> "Please provide a valid report file path in the environment variables."]
WriteError == [type |-> "Error", message |-> "EACCES: permission denied, open 'prompt.txt'"]

\* CustomError.prototype.toString of OpenRouterAICore/customError
CustomErrorToString(error) == error.message

\* The cross mark that opens the error strings of main is written [x].
\* the catch block of main
ErrorString(error) ==
    IF error.type = "CustomError" THEN CustomErrorToString(error)
    ELSE "[x] Action failed: " \o error.message

(***************************************************************************)
(* What the environment can supply                                         *)
(***************************************************************************)

\* the largest number of comma-separated entries of OPEN_ROUTER_MODEL
MaxModels == 2
\* the largest number of changed files of a pull request
MaxFiles == 2

\* the sequences over S of length lo..hi
SeqsOf(S, lo, hi) == UNION {[1..n -> S] : n \in lo..hi}

RECURSIVE Join(_, _)
\* q.join(sep)
Join(q, sep) ==
    IF Len(q) = 0 THEN ""
    ELSE IF Len(q) = 1 THEN q[1]
    ELSE q[1] \o sep \o Join(Tail(q), sep)

ReportFilePaths == {"coverage/report.json", "", "  "}
ModelNamePool == {"gpt-4", " claude-2 "}
ModelStrings == {Join(q, ",") : q \in SeqsOf(ModelNamePool, 1, MaxModels)}

Errors ==
    {[type |-> "Error", message |-> "Request failed with status code 429"],
     [type |-> "Value", message |-> "socket hang up"]}

Titles == {"Add {login} form"}
Documents == {"Project documentation"}
FileLists == {<<>>, <<"src/a.ts">>}
ReportAB == "{\"dist/a\":\"t1\",\"dist/b\":\"t2\"}"
Reports == {ReportAB, "coverage: 85%"}
Templates == {"Title: ##PLACEHOLDER##\nReport: ##REPORT##"}
VerboseTexts == {"OK", MarkdownFence \o "\n# Review\nLooks fine\n" \o Fence}
SummaryGood == JsonFence \o "\n{\"summary\":\"Good\",\"score\":8}\n" \o Fence
SummaryTexts == {SummaryGood, "Invalid JSON response", "null"}
Pages ==
    {[pageId |-> "98765", pageTitle |-> "TEST-1"],
     [pageId |-> "98766", pageTitle |-> "TEST-1 (2)"]}

(***************************************************************************)
(* src/environment.ts                                                      *)
(***************************************************************************)

\* process.env.X of a variable that is not set
Unset == "<unset>"

\* process.env.X ?? ''
OrEmpty(v) == IF v = Unset THEN "" ELSE v

\* !value || value.trim() === ''
Blank(value) == value = "" \/ Trim(value) = ""

requiredVars ==
    <<"JIRA_URL_OUTPUT", "JIRA_EMAIL_OUTPUT", "JIRA_API_TOKEN_OUTPUT", "JIRA_SPACE_KEY_OUTPUT">>

\* missingVars.map(v => "  - " + v), in the order of requiredVars
RECURSIVE MissingLines(_, _)
MissingLines(envVars, n) ==
    IF n = 0 THEN <<>>
    ELSE MissingLines(envVars, n - 1)
         \o (IF Blank(envVars[requiredVars[n]]) THEN <<"  - " \o requiredVars[n]>> ELSE <<>>)

\* lines 63-98: the variables read, or the Error thrown
getEnvironmentVariables(env) ==
    LET envVars == [name \in DOMAIN env |-> OrEmpty(env[name])]
        missingVars == MissingLines(envVars, Len(requiredVars))
    IN  IF Len(missingVars) > 0
        THEN [thrown |->
                 [type |-> "Error",
                  message |-> "Missing required Confluence output configuration:\n"
                              \o Join(missingVars, "\n")
                              \o "\n\nPlease configure these variables in your GitHub repository settings."],
              envVars |-> envVars]
        ELSE [thrown |-> NoError, envVars |-> envVars]

JIRA_EMAIL_OUTPUT == "test@example.com"
JIRA_API_TOKEN_OUTPUT == "test-token"

\* what a variable of the environment can hold: nothing, blanks, or its value
EnvValues(value) == {Unset, "", "  ", value}

ProcessEnvs ==
    [JIRA_URL_OUTPUT : EnvValues(JIRA_URL_OUTPUT),
     JIRA_EMAIL_OUTPUT : EnvValues(JIRA_EMAIL_OUTPUT),
     JIRA_API_TOKEN_OUTPUT : EnvValues(JIRA_API_TOKEN_OUTPUT),
     JIRA_SPACE_KEY_OUTPUT : EnvValues(JIRA_SPACE_KEY_OUTPUT),
     REPORT_FILE_PATH : ReportFilePaths \cup {Unset}]

(***************************************************************************)
(* The state of the LoopBack report script (src/loopback/updateForReport.js)*)
(***************************************************************************)

VARIABLES
    given,              \* the package directories as the script found them
    packageDirs,        \* the package directories now
    collectPc,          \* "idle", "start", "returned", "rejected", "exited"
    pendingReaddir,     \* the packages whose readdir callback has not run yet
    allTests,           \* the object allTests, as its property list
    coverageDir,        \* whether ./coverage exists
    outputFile          \* the content of ./coverage/ut-results.json

collectVars == <<given, packageDirs, collectPc, pendingReaddir, allTests,
                 coverageDir, outputFile>>

\* a file that does not exist
NoFile == "<no file>"

\* line 5
PACKAGES == <<"services", "facades", "packages">>

\* a package directory that does not exist, and one that holds items
Missing == [exists |-> FALSE, items |-> <<>>]
Dir(items) == [exists |-> TRUE, items |-> items]

\* an item of a package directory that holds no test-results.json, and one
\* whose test-results.json lists tests
NoResults == [report |-> FALSE, tests |-> <<>>]
Results(tests) == [report |-> TRUE, tests |-> tests]

\* an entry of the "tests" array of a mocha JSON report
Test(file, fullTitle) == [file |-> file, fullTitle |-> fullTitle]

\* What process.cwd() can hold under each of the three names: nothing, or a
\* directory whose items each hold a test-results.json (the sequence of its
\* tests) or none. Two packages report a test file of the same base name.
PackageDirPool(n) ==
    CASE n = 1 -> {Missing, Dir(<<>>),
                   Dir(<<Results(<<Test("/repo/services/auth/dist/__tests__/a.test.js",
                                        "auth signs in")>>)>>)}
      [] n = 2 -> {Missing, Dir(<<NoResults>>),
                   Dir(<<Results(<<Test("/repo/facades/shop/dist/__tests__/a.test.js",
                                        "shop lists"),
                                   Test("/repo/facades/shop/dist/__tests__/b.test.js",
                                        "shop pays")>>)>>)}
      [] n = 3 -> {Missing,
                   Dir(<<Results(<<Test("/repo/packages/core/dist/__tests__/c.test.js",
                                        "core adds")>>),
                         NoResults>>),
                   Dir(<<Results(<<>>), Results(<<Test("c.test.js", "core subtracts")>>)>>)}

RECURSIVE StringifyTitles(_, _)
StringifyTitles(titles, i) ==
    IF i > Len(titles) THEN ""
    ELSE "    \"" \o titles[i] \o "\"" \o (IF i < Len(titles) THEN ",\n" ELSE "\n")
         \o StringifyTitles(titles, i + 1)

RECURSIVE StringifyTestMembers(_, _)
StringifyTestMembers(e, i) ==
    IF i > Len(e) THEN ""
    ELSE "  \"" \o e[i].k \o "\": "
         \o (IF e[i].v = <<>> THEN "[]" ELSE "[\n" \o StringifyTitles(e[i].v, 1) \o "  ]")
         \o (IF i < Len(e) THEN ",\n" ELSE "\n") \o StringifyTestMembers(e, i + 1)

\* lines 46-48: JSON.stringify(allTests, null, 2) of an object of arrays of strings
StringifyAllTests(e) == IF e = <<>> THEN "{}" ELSE "{\n" \o StringifyTestMembers(e, 1) \o "}"

RECURSIVE CollectTests(_, _, _)
\* lines 33-38: the for loop over data["tests"], from test i on
CollectTests(e, tests, i) ==
    IF i > Len(tests) THEN e
    ELSE LET testFilePah == LastSegment(tests[i].file)
             sofar == IF HasKey(e, testFilePah) THEN ObjGet(e, testFilePah) ELSE <<>>
         IN  CollectTests(ObjSet(e, testFilePah, Append(sofar, tests[i].fullTitle)), tests, i + 1)

RECURSIVE CollectItems(_, _, _)
\* lines 21-42 for the action collect-report: items.forEach, from item i on
CollectItems(e, items, i) ==
    IF i > Len(items) THEN e
    ELSE CollectItems(IF items[i].report THEN CollectTests(e, items[i].tests, 1) ELSE e,
                      items, i + 1)

\* line 39: every test-results.json of the directory is unlinked
Unlinked(items) == [i \in 1..Len(items) |-> NoResults]

\* the script has not been started
CollectIdle ==
    /\ given = [n \in 1..Len(PACKAGES) |-> Missing]
    /\ packageDirs = given
    /\ collectPc = "idle"
    /\ pendingReaddir = {}
    /\ allTests = <<>>
    /\ coverageDir = FALSE
    /\ outputFile = NoFile

(***************************************************************************)
(* The test-generation pipeline (src/generateTests.ts)                     *)
(***************************************************************************)

VARIABLES
    genPc,              \* "idle", "start", the call the run is suspended on, "returned", "exited"
    genCalls,           \* every external call started: [name, a1, a2, st, reply]
    framework,          \* projectContext.framework
    genModelNames,      \* modelNames of generateUnitTests
    genIdx,             \* position of the for loop of generateUnitTests
    generatedTests,     \* generatedTests of generateUnitTests, then of main
    genFiles,           \* the files written, in the order of the writes: [path, content]
    shell,              \* the commands execSync ran to their end
    genResponse,        \* response of main
    genCaught           \* the value the catch block of main received

genVars == <<genPc, genCalls, framework, genModelNames, genIdx, generatedTests,
             genFiles, shell, genResponse, genCaught>>

\* s.substring(i - 1, j): the characters s[i..j] that exist
Slice(s, i, j) == Sub(s, i, IF j > Len(s) THEN Len(s) ELSE j)

UpperCase == "ABCDEFGHIJKLMNOPQRSTUVWXYZ"
LowerCase == "abcdefghijklmnopqrstuvwxyz"

RECURSIVE ToLowerCase(_)
\* s.toLowerCase() for text in ASCII
ToLowerCase(s) ==
    IF s = "" THEN ""
    ELSE LET c == CharAt(s, 1)
             k == IndexOf(UpperCase, c)
         IN  (IF k = 0 THEN c ELSE CharAt(LowerCase, k)) \o ToLowerCase(Sub(s, 2, Len(s)))

\* line 415: the language tags codeBlockRegex accepts after the fence
LanguageTags == {"typescript", "javascript", "ts", "js", ""}

\* line 415: where the text of a code block would start if codeBlockRegex
\* matched its opening "fence, tag, newline" at position k; 0 if it does not
BlockStart(s, k) ==
    IF Slice(s, k, k + 2) # Fence \/ k + 2 > Len(s) THEN 0
    ELSE LET tags == {tag \in LanguageTags :
                        /\ k + 3 + Len(tag) <= Len(s)
                        /\ Slice(s, k + 3, k + 3 + Len(tag)) = tag \o "\n"}
         IN  IF tags = {} THEN 0
             ELSE k + 4 + Len(CHOOSE tag \in tags : TRUE)

RECURSIVE CodeBlocks(_, _)
\* lines 415-420: the captures of the successive matches of codeBlockRegex
\* in s from position i on; a match ends at the first fence after its start
CodeBlocks(s, i) ==
    LET ks == {k \in i..Len(s) :
                 /\ BlockStart(s, k) # 0
                 /\ IndexFrom(s, Fence, BlockStart(s, k)) # 0}
    IN  IF ks = {} THEN <<>>
        ELSE LET k == CHOOSE x \in ks : \A y \in ks : x <= y
                 c == BlockStart(s, k)
                 e == IndexFrom(s, Fence, c)
             IN  <<Slice(s, c, e - 1)>> \o CodeBlocks(s, e + 3)

LineTerminators == {"\n", "\r"}

RECURSIVE SkipSpace(_, _)
\* the position after the white space of s that starts at i
SkipSpace(s, i) ==
    IF i <= Len(s) /\ CharAt(s, i) \in WhiteSpace THEN SkipSpace(s, i + 1) ELSE i

RECURSIVE LineEnd(_, _)
\* the position of the last character of the line of s that holds i
LineEnd(s, i) ==
    IF i < Len(s) /\ CharAt(s, i + 1) \notin LineTerminators THEN LineEnd(s, i + 1) ELSE i

\* line 416: the capture of fileNameRegex matched at position k of code, as
\* [ok, name]: "//" or "#", white space, "File:" or "Filename:" in any
\* case, white space, and the rest of the line. When only white space
\* follows the label the capture is a space or a tab of it, if it has one.
FileNameAt(code, k) ==
    LET m == IF Slice(code, k, k + 1) = "//" THEN 2
             ELSE IF CharAt(code, k) = "#" THEN 1 ELSE 0
        p == SkipSpace(code, k + m)
        label == IF ToLowerCase(Slice(code, p, p + 4)) = "file:" THEN 5
                 ELSE IF ToLowerCase(Slice(code, p, p + 8)) = "filename:" THEN 9 ELSE 0
        q == p + label
        r == SkipSpace(code, q)
    IN  IF m = 0 \/ label = 0 \/ p + label - 1 > Len(code)
        THEN [ok |-> FALSE, name |-> ""]
        ELSE IF r <= Len(code)
        THEN [ok |-> TRUE, name |-> Slice(code, r, LineEnd(code, r))]
        ELSE [ok |-> \E j \in q..Len(code) : CharAt(code, j) \notin LineTerminators,
              name |-> " "]

\* lines 423-424: fileNameMatch ? fileNameMatch[1].trim() : the default name
FileNameOf(code, fw) ==
    LET ks == {k \in 1..Len(code) : FileNameAt(code, k).ok}
    IN  IF ks = {} THEN "generated.test." \o ToLowerCase(fw) \o ".ts"
        ELSE Trim(FileNameAt(code, CHOOSE x \in ks : \A y \in ks : x <= y).name)

Quotes == {"'", "\"", BT}

RECURSIVE StripQuotes(_)
StripQuotes(s) ==
    IF s = "" THEN ""
    ELSE (IF CharAt(s, 1) \in Quotes THEN "" ELSE CharAt(s, 1)) \o StripQuotes(Sub(s, 2, Len(s)))

\* line 429: the end of the match of describe\(['"`](.+?)['"`] that starts
\* at k: the first quote at least two characters after the opening quote,
\* on the same line; 0 if the pattern does not match at k
DescribeEnd(code, k) ==
    LET js == {j \in (k + 11)..Len(code) :
                 /\ CharAt(code, j) \in Quotes
                 /\ \A i \in (k + 10)..(j - 1) : CharAt(code, i) \notin LineTerminators}
    IN  IF Slice(code, k, k + 8) # "describe(" \/ k + 9 > Len(code)
           \/ CharAt(code, k + 9) \notin Quotes \/ js = {}
        THEN 0
        ELSE CHOOSE x \in js : \A y \in js : x <= y

RECURSIVE Describes(_, _)
\* lines 428-432: the names of the describe blocks of code from position i
\* on: each match with its "describe(quote" and every quote removed
Describes(code, i) ==
    LET ks == {k \in i..Len(code) : DescribeEnd(code, k) # 0}
    IN  IF ks = {} THEN <<>>
        ELSE LET k == CHOOSE x \in ks : \A y \in ks : x <= y
                 e == DescribeEnd(code, k)
             IN  <<StripQuotes(Slice(code, k + 10, e))>> \o Describes(code, e + 1)

\* lines 411-444
parseGeneratedTests(response_, fw) ==
    LET blocks == CodeBlocks(response_, 1)
    IN  [i \in 1..Len(blocks) |->
            [fileName |-> FileNameOf(blocks[i], fw),
             content |-> blocks[i],
             framework |-> fw,
             coverage |-> Describes(blocks[i], 1)]]

\* the pipeline has not been started
GenIdle ==
    /\ genPc = "idle"
    /\ genCalls = <<>>
    /\ framework = ""
    /\ genModelNames = <<>>
    /\ genIdx = 0
    /\ generatedTests = <<>>
    /\ genFiles = <<>>
    /\ shell = <<>>
    /\ genResponse = ""
    /\ genCaught = NoError

(***************************************************************************)
(* The run of main                                                         *)
(***************************************************************************)

VARIABLES
    processEnv,         \* process.env when ./environment is loaded
    uncaught,           \* the exception that ended the process, if any
    REPORT_FILE_PATH,   \* ENV_VARIABLES.REPORT_FILE_PATH
    OPEN_ROUTER_MODEL,  \* GlobalENV.OPEN_ROUTER_MODEL
    pc,                 \* "load", "crashed", "init", the call main is suspended on, "returned"
    calls,              \* every external call started: [name, a1, a2, st, reply]
    jiraTitle,
    files,              \* what GetPullRequestDiff resolved with
    reportFileContent,  \* main's reportFileContent: what parseReportFile returned
    userPrompt,
    promptFile,         \* the content of prompt.txt
    modelNames,
    idx,                \* position of the for loop of processModelResponses
    pmr,                \* locals of processModelResponses: [response, summaryResponse]
    response,
    summaryResponse,
    caught,             \* the value the catch block of main received
    result              \* what main returned

mainVars == <<processEnv, uncaught, REPORT_FILE_PATH, OPEN_ROUTER_MODEL, pc, calls, jiraTitle, files,
              reportFileContent, userPrompt, promptFile, modelNames, idx, pmr,
              response, summaryResponse, caught, result>>

vars == <<collectVars, genVars, mainVars>>

\* the calls started and not yet settled
InFlight == {i \in 1..Len(calls) : calls[i].st = "pending"}

\* the log with the awaited call settled
Settled(st, reply) ==
    [calls EXCEPT ![Len(calls)] = [@ EXCEPT !.st = st, !.reply = reply]]

NewCall(name, a1, a2) ==
    [name |-> name, a1 |-> a1, a2 |-> a2, st |-> "pending", reply |-> ""]

\* the awaited call resolves with reply and the run starts the next call
ResolveThenCall(reply, name, a1, a2) ==
    /\ calls' = Append(Settled("resolved", reply), NewCall(name, a1, a2))
    /\ pc' = name

\* the awaited call rejects, the run absorbs it and starts the next call
RejectThenCall(name, a1, a2) ==
    /\ calls' = Append(Settled("rejected", ""), NewCall(name, a1, a2))
    /\ pc' = name

\* lines 376-389: the catch block of main, and the return
Catch(error) ==
    /\ response' = ErrorString(error)
    /\ caught' = error
    /\ result' = ErrorString(error)
    /\ pc' = "returned"

\* the awaited call rejects with error and the rejection reaches the catch block
RejectAndCatch(error) ==
    /\ calls' = Settled("rejected", "")
    /\ Catch(error)

Init ==
    /\ CollectIdle
    /\ GenIdle
    /\ processEnv \in ProcessEnvs
    /\ uncaught = NoError
    /\ REPORT_FILE_PATH = ""
    /\ OPEN_ROUTER_MODEL \in ModelStrings
    /\ pc = "load"
    /\ calls = <<>>
    /\ jiraTitle = ""
    /\ files = <<>>
    /\ reportFileContent = ""
    /\ userPrompt = ""
    /\ promptFile = NoFile
    /\ modelNames = <<>>
    /\ idx = 0
    /\ pmr = [response |-> "", summaryResponse |-> ""]
    /\ response = ""
    /\ summaryResponse = ""
    /\ caught = NoError
    /\ result = ""

\* src/environment.ts, line 104: the module main.ts imports is evaluated;
\* an exception thrown there is caught by nothing and ends the process
LoadEnvironment ==
    /\ pc = "load"
    /\ LET loaded == getEnvironmentVariables(processEnv)
       IN  IF loaded.thrown # NoError
           THEN /\ uncaught' = loaded.thrown
                /\ pc' = "crashed"
                /\ UNCHANGED REPORT_FILE_PATH
           ELSE /\ REPORT_FILE_PATH' = loaded.envVars.REPORT_FILE_PATH
                /\ pc' = "init"
                /\ UNCHANGED uncaught
    /\ UNCHANGED <<collectVars, genVars, processEnv, OPEN_ROUTER_MODEL, calls, jiraTitle, files, reportFileContent,
                   userPrompt, promptFile, modelNames, idx, pmr, response, summaryResponse,
                   caught, result>>

\* Main without the check of the report file path
MainNoCheck ==
    /\ pc = "init"
    /\ summaryResponse' = getSummaryResponseString
    /\ calls' = <<NewCall("GetJiraTitle", "", "")>>
    /\ pc' = "GetJiraTitle"
    /\ UNCHANGED <<collectVars, genVars, processEnv, uncaught, REPORT_FILE_PATH, OPEN_ROUTER_MODEL, jiraTitle, files,
                   reportFileContent, userPrompt, promptFile, modelNames, idx, pmr, response,
                   caught, result>>

\* main, lines 193-214: up to the first await
Main ==
    /\ pc = "init"
    /\ summaryResponse' = getSummaryResponseString
    /\ IF Trim(REPORT_FILE_PATH) = ""
       THEN /\ Catch(ConfigError)
            /\ UNCHANGED calls
       ELSE /\ calls' = <<NewCall("GetJiraTitle", "", "")>>
            /\ pc' = "GetJiraTitle"
            /\ UNCHANGED <<response, caught, result>>
    /\ UNCHANGED <<collectVars, genVars, processEnv, uncaught, REPORT_FILE_PATH, OPEN_ROUTER_MODEL, jiraTitle, files, reportFileContent,
                   userPrompt, promptFile, modelNames, idx, pmr>>

\* lines 214-246
GetJiraTitleResolved(title) ==
    /\ pc = "GetJiraTitle"
    /\ jiraTitle' = title
    /\ ResolveThenCall(title, "GetProjectDocument", "", "")
    /\ UNCHANGED <<collectVars, genVars, processEnv, uncaught, REPORT_FILE_PATH, OPEN_ROUTER_MODEL, files, reportFileContent, userPrompt,
                   promptFile, modelNames, idx, pmr, response, summaryResponse, caught, result>>

\* lines 216-240 and the catch block
GetJiraTitleRejected(error) ==
    /\ pc = "GetJiraTitle"
    /\ RejectAndCatch(error)
    /\ UNCHANGED <<collectVars, genVars, processEnv, uncaught, REPORT_FILE_PATH, OPEN_ROUTER_MODEL, jiraTitle, files, reportFileContent,
                   userPrompt, promptFile, modelNames, idx, pmr, summaryResponse>>

\* GetProjectDocumentResolved with addDocument started and not awaited
GetProjectDocumentResolvedNoAwait(projectDocument) ==
    /\ pc = "GetProjectDocument"
    /\ calls' = Settled("resolved", projectDocument)
                \o <<NewCall("addDocument", JIRA_PROJECT_KEY \o "-index", projectDocument),
                     NewCall("GetPullRequestDiff", "", "")>>
    /\ pc' = "GetPullRequestDiff"
    /\ UNCHANGED <<collectVars, genVars, processEnv, uncaught, REPORT_FILE_PATH, OPEN_ROUTER_MODEL, jiraTitle, files, reportFileContent,
                   userPrompt, promptFile, modelNames, idx, pmr, response, summaryResponse,
                   caught, result>>

\* lines 246-268
GetProjectDocumentResolved(projectDocument) ==
    /\ pc = "GetProjectDocument"
    /\ ResolveThenCall(projectDocument, "addDocument", JIRA_PROJECT_KEY \o "-index", projectDocument)
    /\ UNCHANGED <<collectVars, genVars, processEnv, uncaught, REPORT_FILE_PATH, OPEN_ROUTER_MODEL, jiraTitle, files, reportFileContent,
                   userPrompt, promptFile, modelNames, idx, pmr, response, summaryResponse,
                   caught, result>>

\* lines 248-264 and the catch block
GetProjectDocumentRejected(error) ==
    /\ pc = "GetProjectDocument"
    /\ RejectAndCatch(error)
    /\ UNCHANGED <<collectVars, genVars, processEnv, uncaught, REPORT_FILE_PATH, OPEN_ROUTER_MODEL, jiraTitle, files, reportFileContent,
                   userPrompt, promptFile, modelNames, idx, pmr, summaryResponse>>

\* lines 268-272 and 41-42: addDocument resolved, parseReportFile starts
AddDocumentResolved ==
    /\ pc = "addDocument"
    /\ ResolveThenCall("", "GetPullRequestDiff", "", "")
    /\ UNCHANGED <<collectVars, genVars, processEnv, uncaught, REPORT_FILE_PATH, OPEN_ROUTER_MODEL, jiraTitle, files, reportFileContent,
                   userPrompt, promptFile, modelNames, idx, pmr, response, summaryResponse,
                   caught, result>>

AddDocumentRejected(error) ==
    /\ pc = "addDocument"
    /\ RejectAndCatch(error)
    /\ UNCHANGED <<collectVars, genVars, processEnv, uncaught, REPORT_FILE_PATH, OPEN_ROUTER_MODEL, jiraTitle, files, reportFileContent,
                   userPrompt, promptFile, modelNames, idx, pmr, summaryResponse>>

\* lines 42-45
GetPullRequestDiffResolved(fs) ==
    /\ pc = "GetPullRequestDiff"
    /\ files' = fs
    /\ ResolveThenCall("", "GetReportFileContent", Cwd \o "/" \o REPORT_FILE_PATH, "")
    /\ UNCHANGED <<collectVars, genVars, processEnv, uncaught, REPORT_FILE_PATH, OPEN_ROUTER_MODEL, jiraTitle, reportFileContent, userPrompt,
                   promptFile, modelNames, idx, pmr, response, summaryResponse, caught, result>>

\* GetPullRequestDiffRejected with the report read and passed on unfiltered
GetPullRequestDiffRejectedUnfiltered ==
    /\ pc = "GetPullRequestDiff"
    /\ RejectThenCall("GetReportFileContent", Cwd \o "/" \o REPORT_FILE_PATH, "")
    /\ UNCHANGED <<collectVars, genVars, processEnv, uncaught, REPORT_FILE_PATH, OPEN_ROUTER_MODEL, jiraTitle, files,
                   reportFileContent, userPrompt, promptFile, modelNames, idx, pmr, response,
                   summaryResponse, caught, result>>

\* lines 68-72 and 272-276: parseReportFile returns '', main goes on
GetPullRequestDiffRejected ==
    /\ pc = "GetPullRequestDiff"
    /\ reportFileContent' = ""
    /\ RejectThenCall("GetUserPrompt", "", "")
    /\ UNCHANGED <<collectVars, genVars, processEnv, uncaught, REPORT_FILE_PATH, OPEN_ROUTER_MODEL, jiraTitle, files, userPrompt, promptFile,
                   modelNames, idx, pmr, response, summaryResponse, caught, result>>

\* lines 45-67 and 272-276
GetReportFileContentResolved(content) ==
    /\ pc = "GetReportFileContent"
    /\ reportFileContent' = FilterReport(files, content)
    /\ ResolveThenCall(content, "GetUserPrompt", "", "")
    /\ UNCHANGED <<collectVars, genVars, processEnv, uncaught, REPORT_FILE_PATH, OPEN_ROUTER_MODEL, jiraTitle, files, userPrompt, promptFile,
                   modelNames, idx, pmr, response, summaryResponse, caught, result>>

\* GetReportFileContentRejected with the failure passed on to main
GetReportFileContentRejectedFatal ==
    /\ pc = "GetReportFileContent"
    /\ RejectAndCatch([type |-> "Error", message |-> "ENOENT: no such file or directory"])
    /\ UNCHANGED <<collectVars, genVars, processEnv, uncaught, REPORT_FILE_PATH, OPEN_ROUTER_MODEL, jiraTitle, files, reportFileContent,
                   userPrompt, promptFile, modelNames, idx, pmr, summaryResponse>>

\* lines 68-72 and 272-276
GetReportFileContentRejected ==
    /\ pc = "GetReportFileContent"
    /\ reportFileContent' = ""
    /\ RejectThenCall("GetUserPrompt", "", "")
    /\ UNCHANGED <<collectVars, genVars, processEnv, uncaught, REPORT_FILE_PATH, OPEN_ROUTER_MODEL, jiraTitle, files, userPrompt, promptFile,
                   modelNames, idx, pmr, response, summaryResponse, caught, result>>

\* GetUserPromptResolved with the file written before the braces are removed
GetUserPromptResolvedWriteEarly(template, written) ==
    /\ pc = "GetUserPrompt"
    /\ userPrompt' = BuildPrompt(template, jiraTitle, reportFileContent)
    /\ calls' = Settled("resolved", template)
    /\ IF written
       THEN /\ promptFile' = ReplaceFirst(ReplaceFirst(template, PLACEHOLDER,
                                                       ReplaceFirst(jiraTitle, "{", "")),
                                          REPORT, reportFileContent)
            /\ pc' = "setTimeout"
            /\ UNCHANGED <<response, caught, result>>
       ELSE /\ Catch(WriteError)
            /\ UNCHANGED promptFile
    /\ UNCHANGED <<collectVars, genVars, processEnv, uncaught, REPORT_FILE_PATH, OPEN_ROUTER_MODEL, jiraTitle, files,
                   reportFileContent, modelNames, idx, pmr, summaryResponse>>

\* lines 276-294: the prompt is built and written, the timer is started;
\* writeFileSync either writes the file or throws
GetUserPromptResolved(template, written) ==
    /\ pc = "GetUserPrompt"
    /\ userPrompt' = BuildPrompt(template, jiraTitle, reportFileContent)
    /\ calls' = Settled("resolved", template)
    /\ IF written
       THEN /\ promptFile' = userPrompt'
            /\ pc' = "setTimeout"
            /\ UNCHANGED <<response, caught, result>>
       ELSE /\ Catch(WriteError)
            /\ UNCHANGED promptFile
    /\ UNCHANGED <<collectVars, genVars, processEnv, uncaught, REPORT_FILE_PATH, OPEN_ROUTER_MODEL, jiraTitle, files, reportFileContent,
                   modelNames, idx, pmr, summaryResponse>>

GetUserPromptRejected(error) ==
    /\ pc = "GetUserPrompt"
    /\ RejectAndCatch(error)
    /\ UNCHANGED <<collectVars, genVars, processEnv, uncaught, REPORT_FILE_PATH, OPEN_ROUTER_MODEL, jiraTitle, files, reportFileContent,
                   userPrompt, promptFile, modelNames, idx, pmr, summaryResponse>>

\* lines 126-130: the call of store.generate for modelNames[i]
GenerateCall(i) == NewCall("generate", Trim(modelNames[i]), userPrompt)

\* DelayCompleted with a timer whose promise is never resolved
DelayNeverCompleted ==
    /\ pc = "setTimeout"
    /\ UNCHANGED vars

\* DelayCompleted with the summary of processModelResponses started empty
DelayCompletedNoHeader ==
    /\ pc = "setTimeout"
    /\ modelNames' = SplitComma(OPEN_ROUTER_MODEL)
    /\ pmr' = [response |-> "", summaryResponse |-> ""]
    /\ idx' = 1
    /\ calls' = Append(calls, NewCall("generate", Trim(modelNames'[1]), userPrompt))
    /\ pc' = "generate"
    /\ UNCHANGED <<collectVars, genVars, processEnv, uncaught, REPORT_FILE_PATH, OPEN_ROUTER_MODEL, jiraTitle, files,
                   reportFileContent, userPrompt, promptFile, response, summaryResponse,
                   caught, result>>

\* lines 294-299 and 120-130: the timer fires, processModelResponses starts
DelayCompleted ==
    /\ pc = "setTimeout"
    /\ modelNames' = SplitComma(OPEN_ROUTER_MODEL)
    /\ pmr' = [response |-> "", summaryResponse |-> summaryResponse]
    /\ idx' = 1
    /\ calls' = Append(calls, NewCall("generate", Trim(modelNames'[1]), userPrompt))
    /\ pc' = "generate"
    /\ UNCHANGED <<collectVars, genVars, processEnv, uncaught, REPORT_FILE_PATH, OPEN_ROUTER_MODEL, jiraTitle, files, reportFileContent,
                   userPrompt, promptFile, response, summaryResponse, caught, result>>

\* AppendResponse with the new block put in front
PrependResponse(resp, modelName, storeResponse) ==
    ResponseLabel(modelName) \o storeResponse \o resp

\* lines 133-134
AppendResponse(resp, modelName, storeResponse) ==
    resp \o ResponseLabel(modelName) \o storeResponse

\* lines 131-142
GenerateResolved(storeResponse) ==
    /\ pc = "generate"
    /\ pmr' = [pmr EXCEPT !.response = AppendResponse(@, modelNames[idx], storeResponse)]
    /\ ResolveThenCall(storeResponse, "makeCallToModel", modelNames[idx], storeResponse)
    /\ UNCHANGED <<collectVars, genVars, processEnv, uncaught, REPORT_FILE_PATH, OPEN_ROUTER_MODEL, jiraTitle, files, reportFileContent,
                   userPrompt, promptFile, modelNames, idx, response, summaryResponse,
                   caught, result>>

\* GenerateRejected with the failure logged and the model skipped
GenerateRejectedAndSkipped(error) ==
    /\ pc = "generate"
    /\ IF idx < Len(modelNames)
       THEN /\ idx' = idx + 1
            /\ calls' = Append(Settled("rejected", ""), GenerateCall(idx + 1))
            /\ pc' = "generate"
            /\ UNCHANGED <<response, caught, result>>
       ELSE /\ idx' = idx
            /\ RejectAndCatch(error)
    /\ UNCHANGED <<collectVars, genVars, processEnv, uncaught, REPORT_FILE_PATH, OPEN_ROUTER_MODEL, jiraTitle, files, reportFileContent,
                   userPrompt, promptFile, modelNames, pmr, summaryResponse>>

\* lines 156-175 and the catch block of main
GenerateRejected(error) ==
    /\ pc = "generate"
    /\ RejectAndCatch(error)
    /\ UNCHANGED <<collectVars, genVars, processEnv, uncaught, REPORT_FILE_PATH, OPEN_ROUTER_MODEL, jiraTitle, files, reportFileContent,
                   userPrompt, promptFile, modelNames, idx, pmr, summaryResponse>>

\* AppendSummary with a placeholder block for a summary that did not parse
AppendSummaryOrPlaceholder(summary, modelName, sResponse) ==
    LET sResponseJson == JSONParse(CleanSummary(sResponse))
    IN  IF ~sResponseJson.ok
        THEN summary \o ModelLine(modelName) \o "\n<b>Summary:-</b> unavailable"
        ELSE IF PropertyReadThrows(sResponseJson.v) THEN summary \o ModelLine(modelName)
        ELSE summary \o ModelLine(modelName) \o SummaryLine(sResponseJson.v)
                     \o ScoreLine(sResponseJson.v)

\* lines 145-153: summaryResponse after the summary text sResponse of modelName
AppendSummary(summary, modelName, sResponse) ==
    LET sResponseJson == JSONParse(CleanSummary(sResponse))
    IN  IF ~sResponseJson.ok THEN summary
        ELSE IF PropertyReadThrows(sResponseJson.v) THEN summary \o ModelLine(modelName)
        ELSE summary \o ModelLine(modelName) \o SummaryLine(sResponseJson.v)
                     \o ScoreLine(sResponseJson.v)

\* AppendSeparator without the test of the length of the list
AppendSeparatorAlways(resp, names) == resp \o Separator

\* lines 154-155
AppendSeparator(resp, names) == IF Len(names) > 1 THEN resp \o Separator ELSE resp

\* lines 143-155, then the next turn of the loop (121-130) or, after the
\* last model, lines 177 and 300-323
MakeCallToModelResolved(sResponse) ==
    /\ pc = "makeCallToModel"
    /\ pmr' = [response |-> AppendSeparator(pmr.response, modelNames),
               summaryResponse |-> AppendSummary(pmr.summaryResponse, modelNames[idx], sResponse)]
    /\ IF idx < Len(modelNames)
       THEN /\ idx' = idx + 1
            /\ calls' = Append(Settled("resolved", sResponse), GenerateCall(idx + 1))
            /\ pc' = "generate"
            /\ UNCHANGED <<response, summaryResponse, result>>
       ELSE /\ summaryResponse' = pmr'.summaryResponse
            /\ idx' = idx
            /\ IF pmr'.response # ""
               THEN /\ response' = CleanResponse(pmr'.response)
                    /\ ResolveThenCall(sResponse, "ConfluenceCreatePageTool", PageBody(response'), "")
                    /\ UNCHANGED result
               ELSE /\ response' = pmr'.response
                    /\ calls' = Settled("resolved", sResponse)
                    /\ result' = response'
                    /\ pc' = "returned"
    /\ UNCHANGED <<collectVars, genVars, processEnv, uncaught, REPORT_FILE_PATH, OPEN_ROUTER_MODEL, jiraTitle, files, reportFileContent,
                   userPrompt, promptFile, modelNames, caught>>

\* MakeCallToModelRejected with the failure treated as a summary that did
\* not parse: logged, and the loop goes on
MakeCallToModelRejectedTolerated(error) ==
    /\ pc = "makeCallToModel"
    /\ pmr' = [pmr EXCEPT !.response = AppendSeparator(@, modelNames)]
    /\ IF idx < Len(modelNames)
       THEN /\ idx' = idx + 1
            /\ calls' = Append(Settled("rejected", ""), GenerateCall(idx + 1))
            /\ pc' = "generate"
            /\ UNCHANGED <<response, summaryResponse>>
       ELSE /\ summaryResponse' = pmr'.summaryResponse
            /\ idx' = idx
            /\ response' = CleanResponse(pmr'.response)
            /\ RejectThenCall("ConfluenceCreatePageTool", PageBody(response'), "")
    /\ UNCHANGED <<collectVars, genVars, processEnv, uncaught, REPORT_FILE_PATH, OPEN_ROUTER_MODEL, jiraTitle, files,
                   reportFileContent, userPrompt, promptFile, modelNames, caught, result>>

\* lines 156-175 and the catch block of main
MakeCallToModelRejected(error) ==
    /\ pc = "makeCallToModel"
    /\ RejectAndCatch(error)
    /\ UNCHANGED <<collectVars, genVars, processEnv, uncaught, REPORT_FILE_PATH, OPEN_ROUTER_MODEL, jiraTitle, files, reportFileContent,
                   userPrompt, promptFile, modelNames, idx, pmr, summaryResponse>>

\* lines 324-325 and 352-355
CreatePageResolved(createPageResponse) ==
    /\ pc = "ConfluenceCreatePageTool"
    /\ summaryResponse' = summaryResponse \o DetailsPrefix \o getConfluenceLink(createPageResponse)
    /\ ResolveThenCall(createPageResponse, "CreateUpdateComments", summaryResponse', "")
    /\ UNCHANGED <<collectVars, genVars, processEnv, uncaught, REPORT_FILE_PATH, OPEN_ROUTER_MODEL, jiraTitle, files, reportFileContent,
                   userPrompt, promptFile, modelNames, idx, pmr, response, caught, result>>

\* CreatePageRejected with the page creation tried a second time
CreatePageRejectedRetried ==
    /\ pc = "ConfluenceCreatePageTool"
    /\ IF Cardinality({i \in 1..Len(calls) : calls[i].name = "ConfluenceCreatePageTool"}) = 1
       THEN RejectThenCall("ConfluenceCreatePageTool", calls[Len(calls)].a1, "")
       ELSE RejectThenCall("CreateUpdateComments", summaryResponse, "")
    /\ UNCHANGED <<collectVars, genVars, processEnv, uncaught, REPORT_FILE_PATH, OPEN_ROUTER_MODEL, jiraTitle, files,
                   reportFileContent, userPrompt, promptFile, modelNames, idx, pmr, response,
                   summaryResponse, caught, result>>

\* CreatePageRejected with the failure passed on to the catch block of main
CreatePageRejectedFatal ==
    /\ pc = "ConfluenceCreatePageTool"
    /\ RejectAndCatch([type |-> "Error", message |-> "Request failed with status code 403"])
    /\ UNCHANGED <<collectVars, genVars, processEnv, uncaught, REPORT_FILE_PATH, OPEN_ROUTER_MODEL, jiraTitle, files,
                   reportFileContent, userPrompt, promptFile, modelNames, idx, pmr,
                   summaryResponse>>

\* lines 326-355
CreatePageRejected ==
    /\ pc = "ConfluenceCreatePageTool"
    /\ RejectThenCall("CreateUpdateComments", summaryResponse, "")
    /\ UNCHANGED <<collectVars, genVars, processEnv, uncaught, REPORT_FILE_PATH, OPEN_ROUTER_MODEL, jiraTitle, files, reportFileContent,
                   userPrompt, promptFile, modelNames, idx, pmr, response, summaryResponse,
                   caught, result>>

\* lines 355-356 and 389
CreateUpdateCommentsResolved ==
    /\ pc = "CreateUpdateComments"
    /\ calls' = Settled("resolved", "")
    /\ result' = response
    /\ pc' = "returned"
    /\ UNCHANGED <<collectVars, genVars, processEnv, uncaught, REPORT_FILE_PATH, OPEN_ROUTER_MODEL, jiraTitle, files, reportFileContent,
                   userPrompt, promptFile, modelNames, idx, pmr, response, summaryResponse,
                   caught>>

\* CreateUpdateCommentsRejected with the failure logged and not thrown again
CreateUpdateCommentsRejectedSwallowed(error) ==
    /\ pc = "CreateUpdateComments"
    /\ calls' = Settled("rejected", "")
    /\ result' = response
    /\ pc' = "returned"
    /\ UNCHANGED <<collectVars, genVars, processEnv, uncaught, REPORT_FILE_PATH, OPEN_ROUTER_MODEL, jiraTitle, files,
                   reportFileContent, userPrompt, promptFile, modelNames, idx, pmr, response,
                   summaryResponse, caught>>

\* lines 357-374 and the catch block of main
CreateUpdateCommentsRejected(error) ==
    /\ pc = "CreateUpdateComments"
    /\ RejectAndCatch(error)
    /\ UNCHANGED <<collectVars, genVars, processEnv, uncaught, REPORT_FILE_PATH, OPEN_ROUTER_MODEL, jiraTitle, files, reportFileContent,
                   userPrompt, promptFile, modelNames, idx, pmr, summaryResponse>>

Next ==
    \/ LoadEnvironment
    \/ Main
    \/ \E title \in Titles : GetJiraTitleResolved(title)
    \/ \E error \in Errors : GetJiraTitleRejected(error)
    \/ \E doc \in Documents : GetProjectDocumentResolved(doc)
    \/ \E error \in Errors : GetProjectDocumentRejected(error)
    \/ AddDocumentResolved
    \/ \E error \in Errors : AddDocumentRejected(error)
    \/ \E fs \in FileLists : GetPullRequestDiffResolved(fs)
    \/ GetPullRequestDiffRejected
    \/ \E content \in Reports : GetReportFileContentResolved(content)
    \/ GetReportFileContentRejected
    \/ \E template \in Templates, written \in BOOLEAN : GetUserPromptResolved(template, written)
    \/ \E error \in Errors : GetUserPromptRejected(error)
    \/ DelayCompleted
    \/ \E text \in VerboseTexts : GenerateResolved(text)
    \/ \E error \in Errors : GenerateRejected(error)
    \/ \E text \in SummaryTexts : MakeCallToModelResolved(text)
    \/ \E error \in Errors : MakeCallToModelRejected(error)
    \/ \E page \in Pages : CreatePageResolved(page)
    \/ CreatePageRejected
    \/ CreateUpdateCommentsResolved
    \/ \E error \in Errors : CreateUpdateCommentsRejected(error)

Spec == Init /\ [][Next]_vars

\* the environment of a run in which ./environment loads
LoadedEnvs == {env \in ProcessEnvs : getEnvironmentVariables(env).thrown = NoError}

\* Init with the main variables as Init sets them and a given choice of
\* process.env and OPEN_ROUTER_MODEL
InitWith(envs, modelStrings) ==
    /\ CollectIdle
    /\ GenIdle
    /\ processEnv \in envs
    /\ uncaught = NoError
    /\ REPORT_FILE_PATH = ""
    /\ OPEN_ROUTER_MODEL \in modelStrings
    /\ pc = "load"
    /\ calls = <<>>
    /\ jiraTitle = ""
    /\ files = <<>>
    /\ reportFileContent = ""
    /\ userPrompt = ""
    /\ promptFile = NoFile
    /\ modelNames = <<>>
    /\ idx = 0
    /\ pmr = [response |-> "", summaryResponse |-> ""]
    /\ response = ""
    /\ summaryResponse = ""
    /\ caught = NoError
    /\ result = ""

\* The run from a loaded environment, for one model and for two, with every
\* step that can be taken eventually taken: a pending call settles, the
\* timer fires, and main runs on from each await.
LiveModelStrings == {"gpt-4", "gpt-4, claude-2 "}
InitLive == InitWith(LoadedEnvs, LiveModelStrings)
\* Some of the steps of Next; NextStep is the same action as Next, written
\* with these disjuncts in front.
Rejections ==
    \/ GetReportFileContentRejected
    \/ \E error \in Errors : GetUserPromptRejected(error)
    \/ \E error \in Errors : MakeCallToModelRejected(error)
NextStep == Rejections \/ Next
SpecLive == InitLive /\ [][Next]_vars /\ WF_vars(NextStep)

\* The run from a loaded environment for model strings with repeated and
\* empty entries.
ListedModelStrings == {Join(q, ",") : q \in SeqsOf({"gpt-4", ""}, 1, MaxModels)}
InitModels == InitWith(LoadedEnvs, ListedModelStrings)
SpecModels == InitModels /\ [][Next]_vars

(***************************************************************************)
(* The report filter and the prompt builder on a wider range of inputs:    *)
(* the same run, cut after parseReportFile returned (SpecReport) and after *)
(* the prompt was written (SpecPrompt).                                    *)
(***************************************************************************)

FilePool == {"src/a.ts", "src/b.ts", "src/c.ts", "src/components/LoginForm.tsx"}
AllFileLists == SeqsOf(FilePool, 0, MaxFiles)

ReportCollision == "{\"dist/a\":\"t1\",\"lib/dist/a\":\"t2\",\"dist/b\":\"t3\"}"
ReportDirectory == "{\"dist/a/\":\"t1\",\"dist/b\":\"t2\"}"
ReportSpaced == "{ \"dist/a\" : \"t1\",\n  \"dist/x\" : \"t2\" }"
ReportOther == "{\"dist/x\":\"t1\",\"dist/y\":7}"
ReportDirectories == "{\"dist/a/\":\"t1\",\"lib/dist/a/\":\"t2\"}"
ReportFixture ==
    "{\"dist/components/LoginForm\":\"Component test report content\","
    \o "\"dist/unrelated/file\":\"Should not be included\"}"
AllReports ==
    {ReportAB, ReportCollision, ReportDirectory, ReportDirectories, ReportSpaced, ReportOther,
     ReportFixture, "{}", "null", "coverage: 85%"}

NextReport ==
    \/ LoadEnvironment
    \/ Main
    \/ \E title \in Titles : GetJiraTitleResolved(title)
    \/ \E doc \in Documents : GetProjectDocumentResolved(doc)
    \/ AddDocumentResolved
    \/ \E fs \in AllFileLists : GetPullRequestDiffResolved(fs)
    \/ GetPullRequestDiffRejected
    \/ \E content \in AllReports : GetReportFileContentResolved(content)
    \/ GetReportFileContentRejected

SpecReport == Init /\ [][NextReport]_vars

AllTitles ==
    {"Add {login} form", "Fix {{id}} parser", "Charge $& fee", "Document ##REPORT## token",
     "Costs $$ and $' more"}
TemplateTitleFirst == "Title: ##PLACEHOLDER##\nReport: ##REPORT##"
TemplateReportFirst == "{role: reviewer}\nReport: ##REPORT##\nTicket: ##PLACEHOLDER##"
AllTemplates ==
    {TemplateTitleFirst, TemplateReportFirst, "Report: ##REPORT##", "Review the tests",
     "##PLACEHOLDER## ##REPORT## ##PLACEHOLDER##"}
PromptReports == {ReportAB, "coverage: 85% of {lines}", "coverage: 85%"}

NextPrompt ==
    \/ LoadEnvironment
    \/ Main
    \/ \E title \in AllTitles : GetJiraTitleResolved(title)
    \/ \E doc \in Documents : GetProjectDocumentResolved(doc)
    \/ AddDocumentResolved
    \/ \E fs \in FileLists : GetPullRequestDiffResolved(fs)
    \/ \E content \in PromptReports : GetReportFileContentResolved(content)
    \/ GetReportFileContentRejected
    \/ \E template \in AllTemplates, written \in BOOLEAN : GetUserPromptResolved(template, written)

SpecPrompt == Init /\ [][NextPrompt]_vars

(***************************************************************************)
(* The run of "node updateForReport.js collect-report"                     *)
(*                                                                         *)
(* main runs to its end before any readdir callback: it is one step. git   *)
(* checkout of a path that is not in the work tree exits with a status     *)
(* other than zero, and execSync throws for it. The rejection of main() is *)
(* handled by nothing: the process then either ends at once or only warns, *)
(* by the version of the runtime, and the model takes both.                *)
(***************************************************************************)

\* main.ts is not running
MainIdle ==
    /\ processEnv = [JIRA_URL_OUTPUT |-> Unset, JIRA_EMAIL_OUTPUT |-> Unset,
                     JIRA_API_TOKEN_OUTPUT |-> Unset, JIRA_SPACE_KEY_OUTPUT |-> Unset,
                     REPORT_FILE_PATH |-> Unset]
    /\ uncaught = NoError
    /\ REPORT_FILE_PATH = ""
    /\ OPEN_ROUTER_MODEL = ""
    /\ pc = "idle"
    /\ calls = <<>>
    /\ jiraTitle = ""
    /\ files = <<>>
    /\ reportFileContent = ""
    /\ userPrompt = ""
    /\ promptFile = NoFile
    /\ modelNames = <<>>
    /\ idx = 0
    /\ pmr = [response |-> "", summaryResponse |-> ""]
    /\ response = ""
    /\ summaryResponse = ""
    /\ caught = NoError
    /\ result = ""

InitCollect ==
    /\ MainIdle
    /\ GenIdle
    /\ given \in {<<services, facades, packages>> :
                     services \in PackageDirPool(1), facades \in PackageDirPool(2),
                     packages \in PackageDirPool(3)}
    /\ packageDirs = given
    /\ collectPc = "start"
    /\ pendingReaddir = {}
    /\ allTests = <<>>
    /\ coverageDir \in BOOLEAN
    /\ outputFile = NoFile

\* the packages the forEach of main reaches: all of them, or those up to
\* the first one whose git checkout fails
Reached(dirs) ==
    {n \in 1..Len(PACKAGES) : \A m \in 1..(n - 1) : dirs[m].exists}

\* lines 15-56: main() from its call to the end of its synchronous run. For
\* each package readdir is started (line 18) and then git checkout runs
\* (line 52); a checkout that fails throws out of the forEach.
CollectMain ==
    /\ collectPc = "start"
    /\ pendingReaddir' = Reached(packageDirs)
    /\ IF \A n \in 1..Len(PACKAGES) : packageDirs[n].exists
       THEN collectPc' = "returned"
       ELSE collectPc' \in {"rejected", "exited"}
    /\ UNCHANGED <<given, packageDirs, allTests, coverageDir, outputFile, genVars, mainVars>>

\* lines 18-19: the callback of readdir for a directory that does not
\* exist logs the error
ReaddirFailed(n) ==
    /\ collectPc \in {"returned", "rejected"}
    /\ n \in pendingReaddir
    /\ ~packageDirs[n].exists
    /\ pendingReaddir' = pendingReaddir \ {n}
    /\ UNCHANGED <<given, packageDirs, collectPc, allTests, coverageDir, outputFile, genVars, mainVars>>

\* lines 18-49: the callback of readdir for a directory that exists adds
\* the tests of its items to allTests, unlinks their reports and writes
\* the whole of allTests to the output file
ReaddirSucceeded(n) ==
    /\ collectPc \in {"returned", "rejected"}
    /\ n \in pendingReaddir
    /\ packageDirs[n].exists
    /\ pendingReaddir' = pendingReaddir \ {n}
    /\ allTests' = CollectItems(allTests, packageDirs[n].items, 1)
    /\ packageDirs' = [packageDirs EXCEPT ![n].items = Unlinked(@)]
    /\ coverageDir' = TRUE
    /\ outputFile' = StringifyAllTests(allTests')
    /\ UNCHANGED <<given, collectPc, genVars, mainVars>>

NextCollect ==
    \/ CollectMain
    \/ \E n \in 1..Len(PACKAGES) : ReaddirFailed(n)
    \/ \E n \in 1..Len(PACKAGES) : ReaddirSucceeded(n)

SpecCollect == InitCollect /\ [][NextCollect]_vars

(***************************************************************************)
(* The run of main of generateTests.ts                                     *)
(*                                                                         *)
(* The check mark and the cross mark of its messages are written [v] and   *)
(* [x]. The text generateTestPrompt builds (lines 282-370) is written as a *)
(* one-line stand-in that names the framework; the ticket is PROJ-1.       *)
(***************************************************************************)

JiraId == "PROJ-1"
TestGenKey == "PROJ-test-gen"
TestPrompt(fw) == "Generate unit tests for " \o JiraId \o " in a " \o fw \o " project"
Now == "2025-01-01T00:00:00.000Z"
PullRequestUrl == "https://github.com/org/repo/pull/7"

\* lines 72-84
Frameworks == {"Angular", "Loopback", "Unknown"}

\* OPEN_ROUTER_MODEL for the pipeline: one model, two, and three entries
\* of which one is empty
GenModelStrings == {"gpt-4", "gpt-4, claude-2 ", "gpt-4,,claude-2"}

\* what a model can answer: a named TypeScript block, a bare block, two
\* blocks, a block in a language codeBlockRegex does not accept, no block
GenResponses ==
    {"Here:\n" \o Fence \o "typescript\n// File: login.spec.ts\ndescribe('Login', () => {});\n"
        \o Fence \o "\n",
     Fence \o "\nit('adds');\n" \o Fence,
     Fence \o "ts\n# Filename: a.spec.ts\n" \o Fence \o " and " \o Fence
        \o "js\ndescribe(\"B\", f)\n" \o Fence,
     Fence \o "python\nprint(1)\n" \o Fence,
     "I cannot write tests for this ticket."}

\* lines 587-590
NO_TESTS_GENERATED ==
    [type |-> "CustomError",
     message |-> "No tests were generated. Please check the JIRA ticket and documentation."]

GenWriteError == [type |-> "Error", message |-> "EACCES: permission denied, open"]
ShellError == [type |-> "Error", message |-> "Command failed: git push"]

\* lines 641-647
GenErrorString(error) ==
    "[x] Test generation failed: "
        \o (IF error.type = "CustomError" THEN CustomErrorToString(error) ELSE error.message)

\* lines 463-472: the content of a generated test file
FileContent(test) ==
    "/**\n * AI-Generated Unit Tests\n * Framework: " \o test.framework
        \o "\n * Coverage: " \o Join(test.coverage, ", ")
        \o "\n * Generated: " \o Now
        \o "\n * \n * Please review and modify as needed before merging\n */\n\n"
        \o test.content

\* lines 459-477: the files written for the first n tests
WrittenTests(tests, n) ==
    [i \in 1..n |-> [path |-> "generated-tests/" \o tests[i].fileName,
                     content |-> FileContent(tests[i])]]

\* lines 493-542: the commands of createTestPullRequest, in order
PullRequestCommands ==
    <<"git checkout -b test/" \o JiraId \o "-generated-tests",
      "git add generated-tests/",
      "git commit",
      "git push -u origin test/" \o JiraId \o "-generated-tests",
      "gh pr create">>

\* lines 602-604
TestCommand(fw) ==
    IF fw = "Angular" THEN "npm run test -- generated-tests/ --watch=false"
    ELSE "npm test -- generated-tests/"

\* lines 617-633
SummaryMessage(fw, tests, prUrl) ==
    "\n## [v] AI Test Generation Complete\n\n**JIRA Ticket:** " \o JiraId
        \o "\n**Framework:** " \o fw
        \o "\n**Tests Generated:** " \o ToString(Len(tests)) \o " files"
        \o "\n**Pull Request:** " \o prUrl
        \o "\n\n### Coverage Summary:\n"
        \o Join([i \in 1..Len(tests) |->
                    "- " \o tests[i].fileName \o ": " \o Join(tests[i].coverage, ", ")], "\n")
        \o "\n\n### Next Steps:\n1. Review the generated tests in the PR\n"
        \o "2. Run tests locally to verify\n3. Make any necessary adjustments\n"
        \o "4. Merge when ready\n"

PromptFilePath == "test-generation-prompt.txt"
ResultFilePath == "test-generation-result.txt"

\* the log with the awaited call of the pipeline settled
GenSettled(st, reply) ==
    [genCalls EXCEPT ![Len(genCalls)] = [@ EXCEPT !.st = st, !.reply = reply]]

\* lines 651-661: the final response is written; a write that throws
\* rejects main(), and the handler of line 658 ends the process
WriteResult(files_, text) ==
    \/ /\ genFiles' = Append(files_, [path |-> ResultFilePath, content |-> text])
       /\ genPc' = "returned"
    \/ /\ genFiles' = files_
       /\ genPc' = "exited"

\* lines 640-653: the catch block of main and the write of the response
GenCatch(error, files_) ==
    /\ genResponse' = GenErrorString(error)
    /\ genCaught' = error
    /\ WriteResult(files_, GenErrorString(error))

InitGenerate ==
    /\ CollectIdle
    /\ MainIdle
    /\ genPc = "start"
    /\ genCalls = <<>>
    /\ framework = ""
    /\ genModelNames \in {SplitComma(m) : m \in GenModelStrings}
    /\ genIdx = 0
    /\ generatedTests = <<>>
    /\ genFiles = <<>>
    /\ shell = <<>>
    /\ genResponse = ""
    /\ genCaught = NoError

\* lines 555-568: main starts, detectProjectFramework returns the context
\* and the run waits for fetchJiraTicketDetails
GenStart(fw) ==
    /\ genPc = "start"
    /\ framework' = fw
    /\ genCalls' = <<NewCall("fetchJiraTicketDetails", "", "")>>
    /\ genPc' = "fetchJiraTicketDetails"
    /\ UNCHANGED <<genModelNames, genIdx, generatedTests, genFiles, shell, genResponse,
                   genCaught, collectVars, mainVars>>

\* lines 568-573
FetchJiraTicketDetailsResolved ==
    /\ genPc = "fetchJiraTicketDetails"
    /\ genCalls' = Append(GenSettled("resolved", JiraId),
                          NewCall("fetchConfluenceDocumentation", JiraId, ""))
    /\ genPc' = "fetchConfluenceDocumentation"
    /\ UNCHANGED <<framework, genModelNames, genIdx, generatedTests, genFiles, shell,
                   genResponse, genCaught, collectVars, mainVars>>

\* line 568 throws: lines 640-653
FetchJiraTicketDetailsRejected(error) ==
    /\ genPc = "fetchJiraTicketDetails"
    /\ genCalls' = GenSettled("rejected", "")
    /\ GenCatch(error, genFiles)
    /\ UNCHANGED <<framework, genModelNames, genIdx, generatedTests, shell,
                   collectVars, mainVars>>

\* lines 573-584 and 379-384: fetchConfluenceDocumentation never rejects
\* (lines 273-276); the prompt is built and saved, and generateUnitTests
\* waits for addDocument. A write of the prompt that throws is caught.
FetchConfluenceDocumentationResolved(doc) ==
    /\ genPc = "fetchConfluenceDocumentation"
    /\ \/ /\ genCalls' = Append(GenSettled("resolved", doc),
                                NewCall("addDocument", TestGenKey, TestPrompt(framework)))
          /\ genFiles' = Append(genFiles, [path |-> PromptFilePath,
                                           content |-> TestPrompt(framework)])
          /\ genPc' = "addDocument"
          /\ UNCHANGED <<genResponse, genCaught>>
       \/ /\ genCalls' = GenSettled("resolved", doc)
          /\ GenCatch(GenWriteError, genFiles)
    /\ UNCHANGED <<framework, genModelNames, genIdx, generatedTests, shell,
                   collectVars, mainVars>>

\* the call of store.generate for the model at position i (lines 390-394)
GenGenerateCall(i) == NewCall("generate", Trim(genModelNames[i]), TestGenKey)

\* lines 384-394: addDocument resolves and the first model is asked
GenAddDocumentResolved ==
    /\ genPc = "addDocument"
    /\ genCalls' = Append(GenSettled("resolved", ""), GenGenerateCall(1))
    /\ genIdx' = 1
    /\ genPc' = "generate"
    /\ UNCHANGED <<framework, genModelNames, generatedTests, genFiles, shell,
                   genResponse, genCaught, collectVars, mainVars>>

\* line 384 is outside the try of generateUnitTests: its rejection is the
\* rejection of generateUnitTests, which main catches
GenAddDocumentRejected(error) ==
    /\ genPc = "addDocument"
    /\ genCalls' = GenSettled("rejected", "")
    /\ GenCatch(error, genFiles)
    /\ UNCHANGED <<framework, genModelNames, genIdx, generatedTests, shell,
                   collectVars, mainVars>>

\* lines 586-635, once generateUnitTests has returned tests: with no test
\* NO_TESTS_GENERATED is thrown; otherwise the tests are written (written
\* of them before a write throws), run (passed or not), committed and
\* pushed (ran of the commands before one fails) and the summary is posted
AfterGenerateUnitTests(settled, tests) ==
    IF Len(tests) = 0
    THEN /\ genCalls' = settled
         /\ shell' = shell
         /\ GenCatch(NO_TESTS_GENERATED, genFiles)
    ELSE \E written \in 0..Len(tests), passed \in BOOLEAN, ran \in 0..Len(PullRequestCommands) :
            LET files_ == genFiles \o WrittenTests(tests, written)
                tested == IF passed THEN <<TestCommand(framework)>> ELSE <<>>
            IN  IF written < Len(tests)
                THEN /\ genCalls' = settled
                     /\ shell' = shell
                     /\ GenCatch(GenWriteError, files_)
                ELSE IF ran < Len(PullRequestCommands)
                THEN /\ genCalls' = settled
                     /\ shell' = shell \o tested \o SubSeq(PullRequestCommands, 1, ran)
                     /\ GenCatch(ShellError, files_)
                ELSE /\ genCalls' = Append(settled,
                            NewCall("CreateUpdateComments",
                                    SummaryMessage(framework, tests, PullRequestUrl), ""))
                     /\ shell' = shell \o tested \o PullRequestCommands
                     /\ genFiles' = files_
                     /\ genPc' = "CreateUpdateComments"
                     /\ UNCHANGED <<genResponse, genCaught>>

\* lines 386-405 after the model at genIdx has been dealt with: the next
\* model is asked, or generateUnitTests returns to main
NextModel(settled, tests) ==
    IF genIdx < Len(genModelNames)
    THEN /\ genCalls' = Append(settled, GenGenerateCall(genIdx + 1))
         /\ genIdx' = genIdx + 1
         /\ genPc' = "generate"
         /\ UNCHANGED <<genFiles, shell, genResponse, genCaught>>
    ELSE /\ genIdx' = genIdx
         /\ AfterGenerateUnitTests(settled, tests)

\* NextModel that ends the loop at a failed model
NextModelStopped(settled, tests) ==
    /\ genIdx' = genIdx
    /\ AfterGenerateUnitTests(settled, tests)

\* lines 390-398: generate resolves, its tests are parsed and appended
GenerateTestsResolved(reply) ==
    /\ genPc = "generate"
    /\ generatedTests' = generatedTests \o parseGeneratedTests(reply, framework)
    /\ NextModel(GenSettled("resolved", reply), generatedTests')
    /\ UNCHANGED <<framework, genModelNames, collectVars, mainVars>>

\* GenerateTestsRejected that gives up the remaining models
GenerateTestsRejectedStopped(error) ==
    /\ genPc = "generate"
    /\ generatedTests' = generatedTests
    /\ NextModelStopped(GenSettled("rejected", ""), generatedTests)
    /\ UNCHANGED <<framework, genModelNames, collectVars, mainVars>>

\* lines 400-402: generate rejects, the error is logged and the loop goes on
GenerateTestsRejected(error) ==
    /\ genPc = "generate"
    /\ generatedTests' = generatedTests
    /\ NextModel(GenSettled("rejected", ""), generatedTests)
    /\ UNCHANGED <<framework, genModelNames, collectVars, mainVars>>

\* lines 635-653: the comment is posted and the summary is the response
GenCommentResolved ==
    /\ genPc = "CreateUpdateComments"
    /\ genCalls' = GenSettled("resolved", "")
    /\ genResponse' = genCalls[Len(genCalls)].a1
    /\ WriteResult(genFiles, genCalls[Len(genCalls)].a1)
    /\ UNCHANGED <<framework, genModelNames, genIdx, generatedTests, shell, genCaught,
                   collectVars, mainVars>>

\* line 635 throws: lines 640-653
GenCommentRejected(error) ==
    /\ genPc = "CreateUpdateComments"
    /\ genCalls' = GenSettled("rejected", "")
    /\ GenCatch(error, genFiles)
    /\ UNCHANGED <<framework, genModelNames, genIdx, generatedTests, shell,
                   collectVars, mainVars>>

NextGenerate ==
    \/ \E fw \in Frameworks : GenStart(fw)
    \/ FetchJiraTicketDetailsResolved
    \/ \E error \in Errors : FetchJiraTicketDetailsRejected(error)
    \/ \E doc \in Documents : FetchConfluenceDocumentationResolved(doc)
    \/ GenAddDocumentResolved
    \/ \E error \in Errors : GenAddDocumentRejected(error)
    \/ \E reply \in GenResponses : GenerateTestsResolved(reply)
    \/ \E error \in Errors : GenerateTestsRejected(error)
    \/ GenCommentResolved
    \/ \E error \in Errors : GenCommentRejected(error)

SpecGenerate == InitGenerate /\ [][NextGenerate]_vars

(***************************************************************************)
(* Properties                                                              *)
(***************************************************************************)

CallsNamed(name) == {i \in 1..Len(calls) : calls[i].name = name}
GatewayCalls == {"generate", "makeCallToModel"}
PublishCalls == {"ConfluenceCreatePageTool", "CreateUpdateComments"}
ResolvedGenerate(c) == c.name = "generate" /\ c.st = "resolved"
ResolvedSummarize(c) == c.name = "makeCallToModel" /\ c.st = "resolved"
\* the summary text of a makeCallToModel call is no JSON text
Unparseable(c) == ~JSONParse(CleanSummary(c.reply)).ok
\* the position in the model list of the model the call i was made for
ModelIndexOf(i) == Cardinality({j \in 1..i : calls[j].name = calls[i].name})
NoCallFailed == \A i \in 1..Len(calls) : calls[i].st # "rejected"
CommentPosted ==
    \E i \in CallsNamed("CreateUpdateComments") : calls[i].st = "resolved"
PageRequested == CallsNamed("ConfluenceCreatePageTool") # {}
ErrorReturned == pc = "returned" /\ caught # NoError
CompletedWithoutError == pc = "returned" /\ caught = NoError /\ CommentPosted

(* C1: if the generate call of the model at index k fails, no generate or
   makeCallToModel call is made for a later model, no page is created, no
   comment is posted, main returns a non-empty error string and the
   returned string holds no model's response. *)
C1_GenerateFailureIsFatal ==
    \A i \in CallsNamed("generate") :
        calls[i].st = "rejected" =>
            /\ \A j \in (i + 1)..Len(calls) : calls[j].name \notin GatewayCalls
            /\ Cardinality(CallsNamed("generate")) = ModelIndexOf(i)
            /\ Cardinality(CallsNamed("makeCallToModel")) = ModelIndexOf(i) - 1
            /\ \A j \in 1..Len(calls) : calls[j].name \notin PublishCalls
            /\ ErrorReturned
            /\ result # ""
            /\ result = ErrorString(caught)
            /\ \A j \in CallsNamed("generate") :
                   calls[j].st = "resolved" => ~Includes(result, calls[j].reply)

\* the generate call of the second model failed after the first model was processed
C1_Witness ==
    \E i \in CallsNamed("generate") :
        /\ calls[i].st = "rejected"
        /\ ModelIndexOf(i) = 2
        /\ Len(modelNames) >= 2
        /\ pc = "returned"

(* C2: a summary text that is no JSON leaves the model's labelled verbose
   block in fullResponse and adds no block to summaryResponse; the next
   model is still called, and a run in which no call fails publishes and
   returns no error. *)
C2_SummaryParseFailureTolerated ==
    /\ \A i \in CallsNamed("makeCallToModel") :
           (calls[i].st = "resolved" /\ Unparseable(calls[i])) =>
               /\ Includes(pmr.response, ResponseLabel(calls[i].a1) \o calls[i].a2)
               /\ ModelIndexOf(i) < Len(modelNames) =>
                      /\ i < Len(calls)
                      /\ calls[i + 1].name = "generate"
                      /\ calls[i + 1].a1 = Trim(modelNames[ModelIndexOf(i) + 1])
               /\ ModelIndexOf(i) = Len(modelNames) => PageRequested
    /\ CountOcc(pmr.summaryResponse, ModelLine(""))
           = Cardinality({i \in CallsNamed("makeCallToModel") :
                            calls[i].st = "resolved" /\ ~Unparseable(calls[i])})
    /\ (pc = "returned" /\ NoCallFailed /\ promptFile # NoFile) => CompletedWithoutError

\* the first of two models returned no JSON as its summary, and the run completed
C2_Witness ==
    /\ CompletedWithoutError
    /\ NoCallFailed
    /\ Len(modelNames) = 2
    /\ \E i \in CallsNamed("makeCallToModel") :
           /\ ModelIndexOf(i) = 1
           /\ Unparseable(calls[i])
    /\ \E i \in CallsNamed("makeCallToModel") :
           /\ ModelIndexOf(i) = 2
           /\ ~Unparseable(calls[i])

RECURSIVE ExpectedBlocks(_, _, _)
\* the blocks of the first n models: gen and sum are the resolved generate
\* and makeCallToModel calls so far
ExpectedBlocks(gen, sum, n) ==
    IF n = 0 THEN ""
    ELSE ExpectedBlocks(gen, sum, n - 1)
         \o ResponseLabel(modelNames[n]) \o gen[n].reply
         \o (IF n <= Len(sum) /\ Len(modelNames) > 1 THEN Separator ELSE "")

RECURSIVE Pieces(_, _)
\* s.split(p)
Pieces(s, p) ==
    LET k == IndexOf(s, p)
    IN  IF k = 0 THEN <<s>>
        ELSE <<Sub(s, 1, k - 1)>> \o Pieces(Sub(s, k + Len(p), Len(s)), p)

\* the names of the models whose summary text parsed, in list order
ParsedModels ==
    LET sum == SelectSeq(calls, ResolvedSummarize)
        ok == {i \in 1..Len(sum) : ~Unparseable(sum[i])}
        at(n) == CHOOSE i \in ok : Cardinality({j \in ok : j <= i}) = n
    IN  [n \in 1..Cardinality(ok) |-> modelNames[at(n)]]

StartsWith(s, p) == Sub(s, 1, Len(p)) = p /\ Len(p) <= Len(s)

(* C3: fullResponse is the models' blocks in list order, each the label of
   the model followed by its verbose text, and the blocks of summaryResponse
   are those of the models whose summary parsed, in list order. *)
C3_BlocksInListOrder ==
    LET gen == SelectSeq(calls, ResolvedGenerate)
        sum == SelectSeq(calls, ResolvedSummarize)
        blocks == Pieces(pmr.summaryResponse, ModelLine(""))
    IN  /\ pmr.response = ExpectedBlocks(gen, sum, Len(gen))
        /\ Len(blocks) = Len(ParsedModels) + 1
        /\ \A n \in 1..Len(ParsedModels) : StartsWith(blocks[n + 1], ParsedModels[n])
        /\ Len(sum) >= 1 => blocks[1] = getSummaryResponseString

\* two different models were processed, all calls succeeded, both summaries parsed
C3_Witness ==
    /\ NoCallFailed
    /\ PageRequested
    /\ Len(modelNames) = 2
    /\ modelNames[1] # modelNames[2]
    /\ Len(ParsedModels) = 2

FixedOrder ==
    <<"GetJiraTitle", "GetProjectDocument", "addDocument", "GetPullRequestDiff",
      "GetReportFileContent", "GetUserPrompt">>

\* the place of the call i in the order of the run
Rank(i) ==
    LET name == calls[i].name
    IN  IF \E n \in 1..Len(FixedOrder) : FixedOrder[n] = name
        THEN CHOOSE n \in 1..Len(FixedOrder) : FixedOrder[n] = name
        ELSE IF name = "generate" THEN Len(FixedOrder) + 2 * ModelIndexOf(i) - 1
        ELSE IF name = "makeCallToModel" THEN Len(FixedOrder) + 2 * ModelIndexOf(i)
        ELSE IF name = "ConfluenceCreatePageTool"
        THEN Len(FixedOrder) + 2 * Len(modelNames) + 1
        ELSE Len(FixedOrder) + 2 * Len(modelNames) + 2

(* C4: at most one external call is in flight, a call starts only after
   every earlier call has settled, and the calls start in the fixed order:
   ticket title, project document, addDocument (once, before any generate),
   changed files, report, prompt template, generate then makeCallToModel for
   each model in list order, page creation, comment. *)
C4_OneCallAtATimeInOrder ==
    /\ Cardinality(InFlight) <= 1
    /\ InFlight \subseteq {Len(calls)}
    /\ \A i, j \in 1..Len(calls) : i < j => Rank(i) < Rank(j)
    /\ \A i \in CallsNamed("generate") :
           /\ Cardinality({j \in 1..i : calls[j].name = "addDocument"}) = 1
           /\ ModelIndexOf(i) <= Len(modelNames)
           /\ calls[i].a1 = Trim(modelNames[ModelIndexOf(i)])
    /\ \A i \in CallsNamed("makeCallToModel") :
           /\ calls[i - 1].name = "generate"
           /\ ModelIndexOf(i) = ModelIndexOf(i - 1)
           /\ calls[i].a1 = modelNames[ModelIndexOf(i)]
    /\ \A i \in CallsNamed("ConfluenceCreatePageTool") :
           Cardinality({j \in 1..i : calls[j].name = "makeCallToModel"}) = Len(modelNames)
    /\ \A i \in CallsNamed("CreateUpdateComments") :
           calls[i - 1].name = "ConfluenceCreatePageTool"

\* a run of two models in which every call was made and the comment is in flight
C4_Witness ==
    /\ Len(calls) = Len(FixedOrder) + 2 * 2 + 2
    /\ \A n \in 1..Len(FixedOrder) : calls[n].name = FixedOrder[n]
    /\ InFlight = {Len(calls)}
    /\ calls[Len(calls)].name = "CreateUpdateComments"

\* parseReportFile read the report: the text it read, what it parsed to
ReportRead == \E i \in CallsNamed("GetReportFileContent") : calls[i].st = "resolved"
Raw == calls[CHOOSE i \in CallsNamed("GetReportFileContent") : TRUE].reply
RawProperties == ReportProperties(JSONParse(Raw).v)
RawIsReport == JSONParse(Raw).ok /\ ~PropertyReadThrows(JSONParse(Raw).v)
Needles == {NormalizeFile(files[i]) : i \in 1..Len(files)}
\* the positions of the raw report keys that hold some needle
Matching == {i \in 1..Len(RawProperties) : \E f \in Needles : Includes(RawProperties[i].k, f)}
Filtered == JSONParse(reportFileContent)
\* the last path segment of a key, the key itself where that segment is empty
SegmentOrKey(k) == IF LastSegment(k) = "" THEN k ELSE LastSegment(k)
\* the last matching key that is re-keyed as the matching key i is
LastLike(i) ==
    CHOOSE j \in Matching :
        /\ SegmentOrKey(RawProperties[j].k) = SegmentOrKey(RawProperties[i].k)
        /\ \A n \in Matching :
               SegmentOrKey(RawProperties[n].k) = SegmentOrKey(RawProperties[i].k) => n <= j
FilterApplied == ReportRead /\ files # <<>> /\ RawIsReport /\ Matching # {}

(* C5 as claimed: with a matching key, the result is the serialization of
   the mapping that holds, for every matching raw key, the entry (last path
   segment of the key -> value of the key), and nothing else. *)
C5_Claimed ==
    FilterApplied =>
        /\ Filtered.ok
        /\ Filtered.v.t = "obj"
        /\ reportFileContent = JSONStringify2(Filtered.v.e)
        /\ \A i \in Matching :
               ObjGet(Filtered.v.e, LastSegment(RawProperties[i].k)) = RawProperties[i].v
        /\ \A n \in 1..Len(Filtered.v.e) :
               \E i \in Matching :
                   /\ Filtered.v.e[n].k = LastSegment(RawProperties[i].k)
                   /\ Filtered.v.e[n].v = RawProperties[i].v

(* C5 as amended: the result is the serialization of the mapping that
   holds, for every matching raw key, an entry under the key's last path
   segment (under the whole key where that segment is empty) whose value is
   that of the last matching key re-keyed alike, and nothing else. *)
C5_FilteredReportContent ==
    FilterApplied =>
        /\ Filtered.ok
        /\ Filtered.v.t = "obj"
        /\ reportFileContent = JSONStringify2(Filtered.v.e)
        /\ \A i \in Matching :
               ObjGet(Filtered.v.e, SegmentOrKey(RawProperties[i].k))
                   = RawProperties[LastLike(i)].v
        /\ \A n \in 1..Len(Filtered.v.e) :
               \E i \in Matching :
                   /\ Filtered.v.e[n].k = SegmentOrKey(RawProperties[i].k)
                   /\ Filtered.v.e[n].v = RawProperties[LastLike(i)].v

\* two matching keys share their last segment, and one of two needles matches
C5_Witness ==
    /\ FilterApplied
    /\ pc = "GetUserPrompt"
    /\ Len(files) = 2
    /\ \E i, j \in Matching :
           /\ i < j
           /\ LastSegment(RawProperties[i].k) = LastSegment(RawProperties[j].k)
    /\ \E i \in Matching, f \in Needles : ~Includes(RawProperties[i].k, f)

(* C6: with no changed file, parseReportFile returns the report text as it
   was read, whether or not it is JSON. *)
C6_EmptyDiffReturnsRaw ==
    (ReportRead /\ files = <<>>) => reportFileContent = Raw

\* no changed file and a report that is no JSON text
C6_Witness ==
    /\ ReportRead
    /\ files = <<>>
    /\ ~JSONParse(Raw).ok
    /\ pc = "GetUserPrompt"
    /\ reportFileContent # ""

(* C7: with changed files of which no needle is held by any key of the
   report, parseReportFile returns the report text as it was read. *)
C7_NoMatchReturnsRaw ==
    (ReportRead /\ files # <<>> /\ RawIsReport /\ Matching = {}) => reportFileContent = Raw

\* changed files, a report with keys, none of them matching, and a text
\* that its own serialization would not reproduce
C7_Witness ==
    /\ ReportRead
    /\ files # <<>>
    /\ RawIsReport
    /\ Len(RawProperties) > 0
    /\ Matching = {}
    /\ Raw # JSONStringify2(RawProperties)
    /\ pc = "GetUserPrompt"

\* the report could not be read, or not be parsed when it was to be filtered
ReportUnavailable ==
    \/ \E i \in CallsNamed("GetReportFileContent") : calls[i].st = "rejected"
    \/ ReportRead /\ files # <<>> /\ ~JSONParse(Raw).ok
PromptFetched == \E i \in CallsNamed("GetUserPrompt") : calls[i].st = "resolved"
Template == calls[CHOOSE i \in CallsNamed("GetUserPrompt") : TRUE].reply

(* C8: a report that cannot be read, or cannot be parsed when it is to be
   filtered, gives the empty string as report content and does not abort
   the run: the prompt is built from it, and the models are called and the
   results published unless something else fails. *)
C8_ReportFailureNotFatal ==
    ReportUnavailable =>
        /\ reportFileContent = ""
        /\ CallsNamed("GetUserPrompt") # {}
        /\ PromptFetched => userPrompt = BuildPrompt(Template, jiraTitle, "")
        /\ ErrorReturned =>
               \/ \E i \in 1..Len(calls) :
                      calls[i].st = "rejected" /\ calls[i].name # "GetReportFileContent"
               \/ caught = WriteError
        /\ (pc = "returned" /\ caught = NoError) =>
               /\ Cardinality(CallsNamed("generate")) = Len(modelNames)
               /\ Cardinality(CallsNamed("makeCallToModel")) = Len(modelNames)
               /\ PageRequested
               /\ CommentPosted

\* the report could not be read and the run went on to post the comment
C8_Witness ==
    /\ \E i \in CallsNamed("GetReportFileContent") : calls[i].st = "rejected"
    /\ CompletedWithoutError

\* the report was no JSON when it was to be filtered, and the comment was posted
C8_WitnessParse ==
    /\ ReportRead /\ files # <<>> /\ ~JSONParse(Raw).ok
    /\ CompletedWithoutError

RawKeys == {RawProperties[i].k : i \in 1..Len(RawProperties)}
FilteredKeys == {Filtered.v.e[n].k : n \in 1..Len(Filtered.v.e)}

(* C9 as claimed: with a matching key, the keys of the filtered report are
   a strict subset of the keys of the raw report, and each is the last path
   segment of a matching raw key. *)
C9_Claimed ==
    FilterApplied =>
        /\ Filtered.ok
        /\ FilteredKeys \subseteq RawKeys
        /\ FilteredKeys # RawKeys
        /\ \A k \in FilteredKeys : \E i \in Matching : k = LastSegment(RawProperties[i].k)

(* C9 as amended: with a matching key, every key of the filtered report is
   the last path segment of a matching raw key (the whole key where that
   segment is empty), and the filtered report has at least one key and no
   more keys than the raw report has matching keys. *)
C9_FilteredKeys ==
    FilterApplied =>
        /\ Filtered.ok
        /\ Filtered.v.t = "obj"
        /\ \A k \in FilteredKeys : \E i \in Matching : k = SegmentOrKey(RawProperties[i].k)
        /\ Cardinality(FilteredKeys) >= 1
        /\ Cardinality(FilteredKeys) <= Cardinality(Matching)
        /\ Cardinality(FilteredKeys) = Len(Filtered.v.e)

\* some raw keys match and some do not, and the matching keys have a directory part
C9_Witness ==
    /\ FilterApplied
    /\ pc = "GetUserPrompt"
    /\ Cardinality(Matching) < Len(RawProperties)
    /\ \E i \in Matching : LastSegment(RawProperties[i].k) # RawProperties[i].k

BothPlaceholdersOnce(template) ==
    CountOcc(template, PLACEHOLDER) = 1 /\ CountOcc(template, REPORT) = 1

(* C10: for a template that holds each placeholder exactly once, and any
   ticket title and report content, the built prompt holds neither
   placeholder and no brace. *)
C10_Claimed ==
    (PromptFetched /\ BothPlaceholdersOnce(Template)) =>
        /\ ~Includes(userPrompt, PLACEHOLDER)
        /\ ~Includes(userPrompt, REPORT)
        /\ ~Includes(userPrompt, "{")
        /\ ~Includes(userPrompt, "}")

\* writeFileSync threw: the template was fetched and prompt.txt was not written
WriteFailed == PromptFetched /\ promptFile = NoFile

(* C11: a failed write of prompt.txt does not abort the run: main does not
   return an error because of it, and the run does not end before the model
   calls are made. *)
C11_Claimed ==
    WriteFailed =>
        /\ caught # WriteError
        /\ pc = "returned" => CallsNamed("generate") # {}

PageFailed == \E i \in CallsNamed("ConfluenceCreatePageTool") : calls[i].st = "rejected"
CommentFailed == \E i \in CallsNamed("CreateUpdateComments") : calls[i].st = "rejected"

(* C12: after a failed page creation the comment call is made, once, with
   the summaryResponse of the models and no Details link, and main returns
   no error when the comment is posted; after a successful page creation the
   comment is that summaryResponse followed by the Details link built from
   the id and title of the page returned. *)
C12_PageFailureNotFatal ==
    \A i \in CallsNamed("ConfluenceCreatePageTool") :
        /\ calls[i].st # "pending" =>
               /\ Cardinality(CallsNamed("CreateUpdateComments")) = 1
               /\ calls[i + 1].name = "CreateUpdateComments"
        /\ calls[i].st = "rejected" =>
               /\ calls[i + 1].a1 = pmr.summaryResponse
               /\ ~Includes(calls[i + 1].a1, "Details:-")
               /\ ErrorReturned => calls[i + 1].st = "rejected"
               /\ calls[i + 1].st = "resolved" =>
                      /\ pc = "returned"
                      /\ caught = NoError
                      /\ result = response
                      /\ result = CleanResponse(pmr.response)
        /\ calls[i].st = "resolved" =>
               calls[i + 1].a1
                   = pmr.summaryResponse \o DetailsPrefix \o getConfluenceLink(calls[i].reply)

\* the page creation failed, the comment was posted and main returned
C12_Witness ==
    /\ PageFailed
    /\ CommentPosted
    /\ pc = "returned"
    /\ Len(modelNames) = 2

(* C13: a failed comment call ends the run with an error string as the
   result of main, after a created page as after a failed page creation. *)
C13_CommentFailureIsFatal ==
    CommentFailed =>
        /\ ErrorReturned
        /\ caught \in Errors
        /\ result = ErrorString(caught)
        /\ StartsWith(result, "[x] Action failed: ")
        /\ ~CommentPosted

\* the comment call failed after the page had been created
C13_Witness ==
    /\ CommentFailed
    /\ \E i \in CallsNamed("ConfluenceCreatePageTool") : calls[i].st = "resolved"
    /\ pc = "returned"

\* the comment call failed after the page creation had failed
C13_WitnessNoPage ==
    /\ CommentFailed
    /\ PageFailed
    /\ pc = "returned"

(* C14: with an empty or whitespace-only report file path, main makes no
   external call at all and returns the text of the configuration error. *)
C14_BlankReportPathAborts ==
    (pc \notin {"load", "crashed"} /\ Trim(REPORT_FILE_PATH) = "") =>
        /\ calls = <<>>
        /\ pc \in {"init", "returned"}
        /\ pc = "returned" =>
               /\ caught = ConfigError
               /\ result = CustomErrorToString(ConfigError)
               /\ promptFile = NoFile

\* main returned for a report file path of blanks only
C14_Witness ==
    /\ pc = "returned"
    /\ REPORT_FILE_PATH # ""
    /\ Trim(REPORT_FILE_PATH) = ""
    /\ result = ConfigError.message

(* C15: every fatal failure, a required configuration value being empty or
   missing included, is caught by main and returned as a string; none ends
   the process as an uncaught exception. *)
C15_Claimed ==
    /\ uncaught = NoError
    /\ pc # "crashed"
    /\ caught # NoError => (pc = "returned" /\ result = ErrorString(caught))

\* one of the four output variables is unset, empty or blanks only
AnyOutputBlank ==
    \E n \in 1..Len(requiredVars) : Blank(OrEmpty(processEnv[requiredVars[n]]))

(* C16: loading the environment module with one of the four output
   variables unset, empty or whitespace-only throws an error whose message
   holds 'Confluence Output details not set.'; with all four set it loads
   without throwing. *)
C16_Claimed ==
    pc # "load" =>
        IF AnyOutputBlank
        THEN /\ uncaught # NoError
             /\ Includes(uncaught.message, "Confluence Output details not set.")
        ELSE uncaught = NoError

(* C17: every generate and makeCallToModel call receives the entry of the
   model list it is made for with leading and trailing whitespace removed. *)
C17_Claimed ==
    \A i \in 1..Len(calls) :
        calls[i].name \in GatewayCalls => calls[i].a1 = Trim(modelNames[ModelIndexOf(i)])

EndsWith(s, p) == Len(p) <= Len(s) /\ Sub(s, Len(s) - Len(p) + 1, Len(s)) = p
\* the number of models whose makeCallToModel call has resolved
Summarized ==
    Cardinality({i \in CallsNamed("makeCallToModel") : calls[i].st = "resolved"})
\* the loop of processModelResponses is between two models, or past the last
BetweenModels == Len(calls) > 0 /\ calls[Len(calls)].name # "makeCallToModel"

(* C18: with more than one model, fullResponse holds one separator for each
   model processed, placed at the end of the model's block, the last model
   included; with one model it holds no separator. *)
C18_SeparatorPerModel ==
    /\ CountOcc(pmr.response, Separator)
           = (IF Len(modelNames) > 1 THEN Summarized ELSE 0)
    /\ PageRequested =>
           CountOcc(pmr.response, Separator)
               = (IF Len(modelNames) > 1 THEN Len(modelNames) ELSE 0)
    /\ (Len(modelNames) > 1 /\ Summarized >= 1 /\ BetweenModels) =>
           EndsWith(pmr.response, Separator)
    /\ Summarized >= 1 =>
           CountOcc(pmr.response, Separator \o "<b>ResponseModel:-</b> ")
               = (IF Len(modelNames) > 1
                  THEN Cardinality({i \in CallsNamed("generate") : calls[i].st = "resolved"}) - 1
                  ELSE 0)

\* every model of a list of two or more was processed
C18_Witness ==
    /\ PageRequested
    /\ Len(modelNames) > 1
    /\ CountOcc(pmr.response, Separator) = Len(modelNames)

\* the one model of a list of one was processed
C18_WitnessSingle ==
    /\ PageRequested
    /\ Len(modelNames) = 1
    /\ ~Includes(pmr.response, Separator)

CommentCalls == CallsNamed("CreateUpdateComments")
\* s holds the Model, Summary and Score lines of a scored block
HasScoredBlock(s) ==
    /\ Includes(s, "\n<b>Model:-</b> ")
    /\ Includes(s, "\n<b>Summary:-</b> ")
    /\ Includes(s, "\n<b>Score:-</b> ")
HeaderImage == "jira-favicon-scaled.png)](https:/sourcefuse.atlassian.net/)"
SectionHeader == "## Quality Checker Overview"
\* the summary texts received that parsed to a value with properties
ScoredSummaries ==
    Cardinality({i \in CallsNamed("makeCallToModel") :
                    /\ calls[i].st = "resolved"
                    /\ ~Unparseable(calls[i])
                    /\ ~PropertyReadThrows(JSONParse(CleanSummary(calls[i].reply)).v)})

(* C19 as claimed: every comment posted holds the fixed header and, besides,
   at least one scored summary block or an error string. *)
C19_Claimed ==
    \A i \in CommentCalls :
        /\ Includes(calls[i].a1, HeaderImage)
        /\ Includes(calls[i].a1, SectionHeader)
        /\ HasScoredBlock(calls[i].a1) \/ Includes(calls[i].a1, "Action failed")

(* C19 as amended: every comment posted begins with the fixed header, which
   is followed by one block for each model whose summary text parsed (none
   when no summary parsed), scored unless the parsed value is null, and by
   nothing else but the Details link of a created page. *)
C19_CommentContent ==
    \A i \in CommentCalls :
        /\ StartsWith(calls[i].a1, "[![Foo](https://")
        /\ Includes(calls[i].a1, HeaderImage \o " \n" \o SectionHeader)
        /\ CountOcc(calls[i].a1, "\n<b>Model:-</b> ") = Len(ParsedModels)
        /\ Len(ParsedModels) <= Len(modelNames)
        /\ CountOcc(calls[i].a1, "\n<b>Summary:-</b> ") = ScoredSummaries
        /\ CountOcc(calls[i].a1, "\n<b>Score:-</b> ") = ScoredSummaries
        /\ CountOcc(calls[i].a1, DetailsPrefix)
               = (IF calls[i - 1].st = "resolved" THEN 1 ELSE 0)
        /\ ~Includes(calls[i].a1, "Action failed")

\* a comment was posted although no summary of two models parsed
C19_Witness ==
    /\ CommentPosted
    /\ Len(modelNames) = 2
    /\ Len(ParsedModels) = 0

\* a comment was posted with a scored block for each of two models
C19_WitnessScored ==
    /\ CommentPosted
    /\ Len(modelNames) = 2
    /\ ScoredSummaries = 2

(* C20: prompt.txt is written before the first generate call, and what it
   holds is the prompt as built from the template, the title and the report
   content, the same string every generate call receives. *)
C20_PromptWrittenOnceAndPassed ==
    /\ \A i \in CallsNamed("generate") :
           /\ promptFile # NoFile
           /\ calls[i].a2 = promptFile
           /\ calls[i].a2 = userPrompt
    /\ promptFile # NoFile =>
           /\ PromptFetched
           /\ promptFile = BuildPrompt(Template, jiraTitle, reportFileContent)
    /\ pc \in {"setTimeout", "generate", "makeCallToModel", "ConfluenceCreatePageTool",
               "CreateUpdateComments"} => promptFile # NoFile

\* both models of a list of two were handed the prompt
C20_Witness ==
    /\ Cardinality(CallsNamed("generate")) = 2
    /\ promptFile # NoFile
    /\ promptFile # Template
    /\ pc = "returned"

(* C21: every run of main that has started ends, once every call it waits
   for has settled, and it ends in one of two ways, never both: the comment
   posted and no error, or an error caught and its string returned. *)
C21_RunEnds ==
    /\ [](pc = "returned" =>
            /\ CompletedWithoutError \/ ErrorReturned
            /\ ~(CommentPosted /\ ErrorReturned)
            /\ ErrorReturned => result = ErrorString(caught)
            /\ CompletedWithoutError => result = response
            /\ InFlight = {})
    /\ (pc = "init") ~> (pc = "returned")

\* a run of two models ended with the comment posted
C21_Witness ==
    /\ pc = "returned"
    /\ CommentPosted
    /\ caught = NoError
    /\ Len(modelNames) = 2
    /\ InFlight = {}

\* the entries of the configured model string
Entries == Pieces(OPEN_ROUTER_MODEL, ",")

(* C22: in a run where nothing fails, each comma-separated entry of the
   model string, repeated and empty entries included, gets one generate call
   followed by one makeCallToModel call, in list order, and the page
   creation and the comment are each attempted once; in any run, a call
   that failed is not issued again. *)
C22_NothingRetried ==
    /\ (pc = "returned" /\ NoCallFailed /\ caught = NoError) =>
           /\ Len(Entries) = CountOcc(OPEN_ROUTER_MODEL, ",") + 1
           /\ Cardinality(CallsNamed("generate")) = Len(Entries)
           /\ Cardinality(CallsNamed("makeCallToModel")) = Len(Entries)
           /\ \A i \in CallsNamed("generate") :
                  calls[i].a1 = Trim(Entries[ModelIndexOf(i)])
           /\ \A i \in CallsNamed("makeCallToModel") :
                  /\ calls[i - 1].name = "generate"
                  /\ ModelIndexOf(i) = ModelIndexOf(i - 1)
           /\ Cardinality(CallsNamed("ConfluenceCreatePageTool")) = 1
           /\ Cardinality(CallsNamed("CreateUpdateComments")) = 1
    /\ \A i, j \in 1..Len(calls) :
           (i < j /\ calls[i].st = "rejected") => calls[j].name # calls[i].name
    /\ \A i, j \in 1..Len(calls) :
           (i < j /\ calls[i].name = calls[j].name) => calls[i].name \in GatewayCalls
    /\ Cardinality(CallsNamed("generate")) <= CountOcc(OPEN_ROUTER_MODEL, ",") + 1

\* nothing failed in a run for a model string that names one model twice
C22_Witness ==
    /\ pc = "returned"
    /\ NoCallFailed
    /\ CommentPosted
    /\ OPEN_ROUTER_MODEL = "gpt-4,gpt-4"

\* nothing failed in a run for a model string with an empty entry
C22_WitnessEmptyEntry ==
    /\ pc = "returned"
    /\ NoCallFailed
    /\ CommentPosted
    /\ OPEN_ROUTER_MODEL = "gpt-4,"
    /\ \E i \in CallsNamed("generate") : calls[i].a1 = ""

\* the files main has written, by path
WrittenFiles ==
    IF promptFile = NoFile THEN <<>> ELSE <<[path |-> "prompt.txt", data |-> promptFile]>>

(* C23: when main returns, it has written its result to an output file:
   the models' aggregated response after a successful run, the error message
   after a failed one. *)
C23_Claimed ==
    pc = "returned" =>
        \E n \in 1..Len(WrittenFiles) :
            /\ WrittenFiles[n].path # "prompt.txt"
            /\ WrittenFiles[n].data = result

\* the summary text of a makeCallToModel call parsed to an object that has
\* a summary and a score
ObjectSummary(c) ==
    LET r == JSONParse(CleanSummary(c.reply))
    IN  /\ r.ok
        /\ r.v.t = "obj"
        /\ HasKey(r.v.e, "summary")
        /\ HasKey(r.v.e, "score")

(* C25: summaryResponse holds a complete block (Model, Summary and Score
   lines) for each model whose summary text parsed to an object with summary
   and score, and nothing for any other model: no partial block. *)
C25_Claimed ==
    LET n == Cardinality({i \in CallsNamed("makeCallToModel") :
                            calls[i].st = "resolved" /\ ObjectSummary(calls[i])})
    IN  /\ CountOcc(pmr.summaryResponse, "\n<b>Model:-</b> ") = n
        /\ CountOcc(pmr.summaryResponse, "\n<b>Summary:-</b> ") = n
        /\ CountOcc(pmr.summaryResponse, "\n<b>Score:-</b> ") = n

(* C26: a failed makeCallToModel call ends the run as a failed generate call
   does: it is the last call of the run, no later model is called, nothing
   is published, and main returns the error string. *)
C26_SummarizeFailureIsFatal ==
    \A i \in CallsNamed("makeCallToModel") :
        calls[i].st = "rejected" =>
            /\ i = Len(calls)
            /\ Cardinality(CallsNamed("generate")) = ModelIndexOf(i)
            /\ Cardinality(CallsNamed("makeCallToModel")) = ModelIndexOf(i)
            /\ \A j \in 1..Len(calls) : calls[j].name \notin PublishCalls
            /\ ErrorReturned
            /\ caught \in Errors
            /\ result = ErrorString(caught)
            /\ StartsWith(result, "[x] Action failed: ")
            /\ summaryResponse = getSummaryResponseString

\* the makeCallToModel call of the first of two models failed
C26_Witness ==
    /\ \E i \in CallsNamed("makeCallToModel") :
           calls[i].st = "rejected" /\ ModelIndexOf(i) = 1
    /\ Len(modelNames) = 2
    /\ pc = "returned"

\* the last matching key that has the last path segment of the matching key i
LastSameSegment(i) ==
    CHOOSE j \in Matching :
        /\ LastSegment(RawProperties[j].k) = LastSegment(RawProperties[i].k)
        /\ \A n \in Matching :
               LastSegment(RawProperties[n].k) = LastSegment(RawProperties[i].k) => n <= j
\* the matching key i shares its last path segment with another matching key
SharesSegment(i) ==
    \E j \in Matching :
        j # i /\ LastSegment(RawProperties[j].k) = LastSegment(RawProperties[i].k)
EntriesKeyed(k) == {n \in 1..Len(Filtered.v.e) : Filtered.v.e[n].k = k}

(* C27 as claimed: when selected keys share their final path segment, the
   filtered report has exactly one entry for that segment, with the value of
   the last of them in the key order of the raw report. *)
C27_Claimed ==
    FilterApplied =>
        \A i \in Matching :
            SharesSegment(i) =>
                /\ Cardinality(EntriesKeyed(LastSegment(RawProperties[i].k))) = 1
                /\ ObjGet(Filtered.v.e, LastSegment(RawProperties[i].k))
                       = RawProperties[LastSameSegment(i)].v

(* C27 as amended: when selected keys share a final path segment that is
   not empty, the filtered report has exactly one entry for that segment,
   with the value of the last of them in the key order of the raw report. *)
C27_LastWriteWins ==
    FilterApplied =>
        \A i \in Matching :
            (SharesSegment(i) /\ LastSegment(RawProperties[i].k) # "") =>
                /\ Cardinality(EntriesKeyed(LastSegment(RawProperties[i].k))) = 1
                /\ ObjGet(Filtered.v.e, LastSegment(RawProperties[i].k))
                       = RawProperties[LastSameSegment(i)].v

\* two selected keys with the same last segment and different values
C27_Witness ==
    /\ FilterApplied
    /\ pc = "GetUserPrompt"
    /\ \E i, j \in Matching :
           /\ i < j
           /\ LastSegment(RawProperties[i].k) = LastSegment(RawProperties[j].k)
           /\ LastSegment(RawProperties[i].k) # ""
           /\ RawProperties[i].v # RawProperties[j].v
           /\ Len(Filtered.v.e) = 1
           /\ Filtered.v.e[1].v = RawProperties[j].v

\* f is a TypeScript source file under the source root
IsTypeScriptSource(f) == StartsWith(f, "src/") /\ (EndsWith(f, ".ts") \/ EndsWith(f, ".tsx"))
\* the build path of f without its extension
BuildPath(f) ==
    "dist/" \o Sub(f, 5, Len(f) - (IF EndsWith(f, ".tsx") THEN 4 ELSE 3))

(* C28: the needle of a changed TypeScript source file under src is its
   build path without the extension; the file selects the report entry
   keyed by that path, and an entry is selected only if its key holds the
   build path of a changed file. *)
C28_Claimed ==
    /\ \A n \in 1..Len(files) :
           IsTypeScriptSource(files[n]) =>
               /\ NormalizeFile(files[n]) = BuildPath(files[n])
               /\ (ReportRead /\ RawIsReport /\ HasKey(RawProperties, BuildPath(files[n]))) =>
                      /\ Filtered.ok
                      /\ Filtered.v.t = "obj"
                      /\ HasKey(Filtered.v.e, LastSegment(BuildPath(files[n])))
    /\ FilterApplied =>
           \A k \in FilteredKeys :
               \E i \in 1..Len(RawProperties), n \in 1..Len(files) :
                   /\ SegmentOrKey(RawProperties[i].k) = k
                   /\ Includes(RawProperties[i].k, BuildPath(files[n]))

DiffFailed == \E i \in CallsNamed("GetPullRequestDiff") : calls[i].st = "rejected"

(* C29: when the list of changed files cannot be fetched, parseReportFile
   returns the empty string, the report file is not read, and the run goes
   on: the prompt is built with empty report content, and the run ends in
   an error only if something else fails. *)
C29_DiffFailureGivesEmptyReport ==
    DiffFailed =>
        /\ reportFileContent = ""
        /\ CallsNamed("GetReportFileContent") = {}
        /\ \A i \in CallsNamed("GetPullRequestDiff") : calls[i + 1].name = "GetUserPrompt"
        /\ PromptFetched => userPrompt = BuildPrompt(Template, jiraTitle, "")
        /\ ErrorReturned =>
               \/ \E i \in 1..Len(calls) :
                      calls[i].st = "rejected" /\ calls[i].name # "GetPullRequestDiff"
               \/ caught = WriteError
        /\ (pc = "returned" /\ caught = NoError) => CommentPosted

\* the changed files could not be fetched and the comment was posted
C29_Witness ==
    /\ DiffFailed
    /\ CompletedWithoutError
    /\ ~Includes(userPrompt, REPORT)

\* the process has ended, or main has and every readdir callback has run
CollectFinished ==
    \/ collectPc = "exited"
    \/ collectPc \in {"returned", "rejected"} /\ pendingReaddir = {}

\* the text of the output file lists title in the array of the key base
OutputLists(text, base, title) ==
    LET k == IndexOf(text, "\n  \"" \o base \o "\": [")
        rest == Sub(text, k, Len(text))
        end == IndexOf(rest, "\n  ]")
    IN  /\ k # 0
        /\ Includes(Sub(rest, 1, end), "\n    \"" \o title \o "\"")

\* the tests the test-results.json files of the directory listed
TestsOfDir(dir) ==
    UNION {{dir.items[i].tests[j] : j \in 1..Len(dir.items[i].tests)} : i \in 1..Len(dir.items)}

\* C24: once collect-report has finished, the output file lists every test
\* of every test-results.json of the three package directories under the
\* base name of its test file, whichever of the directories exist and in
\* whatever order the readdir callbacks ran.
C24_Claimed ==
    CollectFinished =>
        \A n \in 1..Len(PACKAGES) : \A t \in TestsOfDir(given[n]) :
            OutputLists(outputFile, LastSegment(t.file), t.fullTitle)

\* the same, when all three directories exist
C24_AllDirectoriesExist ==
    (CollectFinished /\ \A n \in 1..Len(PACKAGES) : given[n].exists) =>
        \A n \in 1..Len(PACKAGES) : \A t \in TestsOfDir(given[n]) :
            OutputLists(outputFile, LastSegment(t.file), t.fullTitle)

\* the calls of store.generate, in the order they were started
GenerateCalls == SelectSeq(genCalls, LAMBDA c : c.name = "generate")

\* the for loop of generateUnitTests has ended
GenLoopDone ==
    /\ \E i \in 1..Len(genCalls) : genCalls[i].name = "addDocument" /\ genCalls[i].st = "resolved"
    /\ genPc # "generate"

RECURSIVE ParsedFrom(_, _)
\* the tests parsed from the replies of the calls that resolved, from call i on
ParsedFrom(cs, i) ==
    IF i > Len(cs) THEN <<>>
    ELSE (IF cs[i].st = "resolved" THEN parseGeneratedTests(cs[i].reply, framework) ELSE <<>>)
         \o ParsedFrom(cs, i + 1)

\* every model is asked in list order whatever became of the ones before
\* it, and the tests returned are those of the replies that came
GenFailureSkipped ==
    /\ \A i \in 1..Len(GenerateCalls) : GenerateCalls[i].a1 = Trim(genModelNames[i])
    /\ GenLoopDone => Len(GenerateCalls) = Len(genModelNames)
    /\ generatedTests = ParsedFrom(GenerateCalls, 1)
    /\ GenLoopDone => (genCaught = NO_TESTS_GENERATED <=> generatedTests = <<>>)

NoPullRequest == \A i \in 1..Len(shell) : shell[i] # "gh pr create"
NoComment == \A i \in 1..Len(genCalls) : genCalls[i].name # "CreateUpdateComments"

\* C30 as stated: a failed generate call is logged and skipped, every
\* remaining model is called in list order and the tests of the other
\* replies are returned; the run fails with NO_TESTS_GENERATED exactly when
\* no model yielded a test, and then no file is written, no pull request is
\* created and no comment is posted.
C30_Claimed ==
    /\ GenFailureSkipped
    /\ genCaught = NO_TESTS_GENERATED =>
           /\ genFiles = <<>>
           /\ NoPullRequest
           /\ NoComment

\* C30, amended: as stated, except that with NO_TESTS_GENERATED the files
\* written are the prompt file, written before the models were asked, and
\* the result file holding the failure text; no generated test file is
\* written, no command is run, no pull request is created and no comment is
\* posted.
C30_NoTestFileWritten ==
    /\ GenFailureSkipped
    /\ genCaught = NO_TESTS_GENERATED =>
           /\ genFiles[1] = [path |-> PromptFilePath, content |-> TestPrompt(framework)]
           /\ Len(genFiles) = (IF genPc = "returned" THEN 2 ELSE 1)
           /\ genPc = "returned" =>
                  /\ genFiles[2].path = ResultFilePath
                  /\ StartsWith(genFiles[2].content, "[x] Test generation failed: ")
           /\ shell = <<>>
           /\ NoPullRequest
           /\ NoComment

\* the first model failed, a later one answered with tests, and the run
\* went on to post its summary
C30_Witness ==
    /\ genPc = "returned"
    /\ genCaught = NoError
    /\ Len(GenerateCalls) >= 2
    /\ GenerateCalls[1].st = "rejected"
    /\ generatedTests # <<>>

\* one model failed, the others answered without a code block, and the run
\* ended with NO_TESTS_GENERATED and its result file
C30_WitnessNoTests ==
    /\ genPc = "returned"
    /\ genCaught = NO_TESTS_GENERATED
    /\ \E i \in 1..Len(GenerateCalls) : GenerateCalls[i].st = "rejected"
    /\ \E i \in 1..Len(GenerateCalls) : GenerateCalls[i].st = "resolved"

====
